---- MODULE Spec2Model ----
(***************************************************************************)
(* DriveAgent (src/backend/campaignRunner.ts) and the HTTP / WebSocket     *)
(* handlers of src/backend/server.ts as a state machine.                   *)
(*                                                                         *)
(* Node runs one callback at a time.  A step of the model is one callback  *)
(* run to its next await that performs I/O: a request handler, the         *)
(* continuation of start(), of loop() or of stop() after such an await, a  *)
(* timer, a browser event.  Continuations released by a resolved promise   *)
(* (the speech gate) and the synchronous prefix of a stop() called by      *)
(* another callback are kept in `micro` and run before any other callback, *)
(* as the microtask queue does.  An await of a call that returns without   *)
(* I/O is not a suspension point of the model.                             *)
(***************************************************************************)
EXTENDS Integers, Sequences, FiniteSets, Bags, TLC

\* ------------------------------------------------------------------ bounds
\* Spec: one run, with every kind of environment input
MaxStarts == 1
MaxStops == 1
MaxTurns == 2
MaxFaults == 1
MaxOdd == 1
\* SpecRestart: start requests around a stop request
MaxRestarts == 2
\* SpecTabs: one run whose pages open and close
MaxTabFaults == 2
\* SpecLoop: one long run
MaxLoopTurns == 12
MaxLoopOdd == 3

\* ------------------------------------------------------- program constants
StagnationWindow == 10
MinActionable == 8
MaxUniqueTargets == 3
StagnationLimit == 3

VARIABLES
    \* DriveAgent fields
    isRunning, isTtsEnabled,
    isSaveTraceEnabled, isSaveThoughtsEnabled, isSaveScreenshotsEnabled,
    browser, context, page,
    history, stagnationCounter, failedTargetIds,
    traceSteps, traceSavedThisRun, currentRunDir,
    thoughtLog, stepLog, errorLog,
    pendingTtsAckId, pendingTtsAckResolve, pendingTtsAckTimer,
    \* callbacks in flight
    starts,       \* start() invocations: position of each
    loops,        \* loop() invocations: position, locals
    teardowns,    \* stop() invocations in flight (a bag of records)
    micro,        \* continuations that run before the next callback
    \* environment
    liveBrowsers, \* browser processes launched and not closed
    livePages,    \* pages open
    timers,       \* armed watchdog timers (by the request they were set for)
    ttsSeq,       \* speech request ids handed out
    used,         \* environment inputs consumed so far
    limits,       \* bounds on the environment inputs of this behaviour
    call,         \* a helper function applied on its own: argument and result
    files,        \* what the artifact files of the current run directory hold
    \* observable output of the last callback
    emitted, status

agentVars == <<isRunning, isTtsEnabled, isSaveTraceEnabled, isSaveThoughtsEnabled,
               isSaveScreenshotsEnabled, browser, context, page, history,
               stagnationCounter, failedTargetIds, traceSteps, traceSavedThisRun,
               currentRunDir, thoughtLog, stepLog, errorLog,
               pendingTtsAckId, pendingTtsAckResolve, pendingTtsAckTimer>>
procVars == <<starts, loops, teardowns, micro>>
envVars == <<liveBrowsers, livePages, timers, ttsSeq, used, limits, call, files>>
outVars == <<emitted, status>>
vars == <<agentVars, procVars, envVars, outVars>>

flagVars == <<isSaveTraceEnabled, isSaveThoughtsEnabled, isSaveScreenshotsEnabled>>
refVars == <<browser, context, page>>
ttsVars == <<pendingTtsAckId, pendingTtsAckResolve, pendingTtsAckTimer>>
runVars == <<history, stagnationCounter, failedTargetIds>>

\* ----------------------------------------------------------------- values
Null == 0
StartIds == 1..(MaxStarts + MaxRestarts)
\* pages: run n opens page n in its context; Tab(n) is a second tab of it
Tab(c) == c + MaxStarts + MaxRestarts
ContextOf(p) == IF p \in StartIds THEN p ELSE p - (MaxStarts + MaxRestarts)
PagesOf(c) == {c, Tab(c)}
Targets == {"1", "2", "3"}
NoTarget == "-"

Decision(a, t) == [action |-> a, targetId |-> t]
NoDecision == Decision("none", NoTarget)
Usual == Decision("click", "1")
OddDecisions == {Decision("click", "2"), Decision("click", "3"),
                 Decision("scroll", NoTarget), Decision("wait", NoTarget),
                 Decision("done", NoTarget)}

Ev(t, d) == [type |-> t, data |-> d]
NoOutput == [by |-> "none", events |-> <<>>]
\* number of entries each file of the run directory holds; NotWritten: no file
NotWritten == 0 - 1
NoFiles == [thoughtsJson |-> NotWritten, traceJson |-> NotWritten,
            report |-> [thoughts |-> NotWritten, steps |-> NotWritten,
                        errors |-> NotWritten]]
Thought(d) == Ev("thought", d)
Status(d) == Ev("status", d)

RECURSIVE CountType(_, _)
CountType(evs, t) ==
    IF evs = <<>> THEN 0
    ELSE (IF Head(evs).type = t THEN 1 ELSE 0) + CountType(Tail(evs), t)

RECURSIVE LastStatus(_, _)
LastStatus(evs, dflt) ==
    IF evs = <<>> THEN dflt
    ELSE LastStatus(Tail(evs), IF Head(evs).type = "status" THEN Head(evs).data ELSE dflt)

IdleStart == [pc |-> "idle"]
IdleLoop == [pc |-> "idle", dec |-> NoDecision, stepCount |-> 0, stopSeen |-> 0,
             on |-> Null]
LiveLoop(l) == loops[l].pc \notin {"idle", "done"}
LiveStart(n) == starts[n].pc \notin {"idle", "done"}

\* the options of a start request (server.ts /start resolves the body to these)
StartOptions == {
    [tts |-> TRUE, trace |-> TRUE, thoughts |-> TRUE, shots |-> FALSE],
    [tts |-> FALSE, trace |-> FALSE, thoughts |-> FALSE, shots |-> FALSE]}
PlainOptions == {[tts |-> FALSE, trace |-> FALSE, thoughts |-> FALSE, shots |-> FALSE]}
VoiceOptions == {[tts |-> TRUE, trace |-> FALSE, thoughts |-> FALSE, shots |-> FALSE]}

\* no helper function is looked at on its own
NoCall == [fn |-> "none", arg |-> <<>>, out |-> <<>>, done |-> TRUE]
\* the environment limits of a behaviour that only applies helper functions
NoLimits == [starts |-> 0, stops |-> 0, turns |-> 0, faults |-> 0, odd |-> 0,
             options |-> {}, observe |-> FALSE, tabs |-> FALSE]

\* ------------------------------------------------------------ constructor
InitAgent ==
    /\ isRunning = FALSE /\ isTtsEnabled = FALSE
    /\ isSaveTraceEnabled = FALSE /\ isSaveThoughtsEnabled = FALSE
    /\ isSaveScreenshotsEnabled = FALSE
    /\ browser = Null /\ context = Null /\ page = Null
    /\ history = <<>> /\ stagnationCounter = 0
    /\ failedTargetIds = [t \in Targets |-> 0]
    /\ traceSteps = <<>> /\ traceSavedThisRun = FALSE /\ currentRunDir = FALSE
    /\ thoughtLog = 0 /\ stepLog = 0 /\ errorLog = 0
    /\ pendingTtsAckId = Null /\ pendingTtsAckResolve = Null /\ pendingTtsAckTimer = Null
    /\ starts = [n \in StartIds |-> IdleStart]
    /\ loops = [n \in StartIds |-> IdleLoop]
    /\ teardowns = EmptyBag
    /\ micro = <<>>
    /\ liveBrowsers = {} /\ livePages = {} /\ timers = {} /\ ttsSeq = 0
    /\ used = [starts |-> 0, stops |-> 0, turns |-> 0, faults |-> 0, odd |-> 0]
    /\ emitted = NoOutput /\ status = "idle"

Init ==
    /\ InitAgent
    /\ limits = [starts |-> MaxStarts, stops |-> MaxStops, turns |-> MaxTurns,
                 faults |-> MaxFaults, odd |-> MaxOdd, options |-> StartOptions,
                 observe |-> TRUE, tabs |-> FALSE]
    /\ call = NoCall /\ files = NoFiles

InitRestart ==
    /\ InitAgent
    /\ limits = [starts |-> MaxRestarts, stops |-> MaxStops, turns |-> MaxTurns,
                 faults |-> 0, odd |-> 0, options |-> VoiceOptions,
                 observe |-> FALSE, tabs |-> FALSE]
    /\ call = NoCall /\ files = NoFiles

InitBusy ==
    /\ InitAgent
    /\ limits = [starts |-> MaxRestarts, stops |-> 0, turns |-> MaxTurns,
                 faults |-> 0, odd |-> MaxOdd, options |-> PlainOptions,
                 observe |-> TRUE, tabs |-> FALSE]
    /\ call = NoCall /\ files = NoFiles

InitTabs ==
    /\ InitAgent
    /\ limits = [starts |-> MaxStarts, stops |-> 0, turns |-> MaxTurns,
                 faults |-> MaxTabFaults, odd |-> 0, options |-> PlainOptions,
                 observe |-> TRUE, tabs |-> TRUE]
    /\ call = NoCall /\ files = NoFiles

InitLoop ==
    /\ InitAgent
    /\ limits = [starts |-> MaxStarts, stops |-> 0, turns |-> MaxLoopTurns,
                 faults |-> 0, odd |-> MaxLoopOdd, options |-> PlainOptions,
                 observe |-> TRUE, tabs |-> FALSE]
    /\ call = NoCall /\ files = NoFiles

\* ------------------------------------------------------- event listeners
\* emit(...): the constructor's listeners append to the logs; the server
\* broadcasts every event.
Emit(evs, by) ==
    /\ emitted' = IF limits.observe THEN [by |-> by, events |-> evs] ELSE NoOutput
    /\ status' = LastStatus(evs, status)

Logged(evs) ==
    /\ thoughtLog' = thoughtLog + CountType(evs, "thought")
    /\ stepLog' = stepLog + CountType(evs, "step")
    /\ errorLog' = errorLog + CountType(evs, "error")

\* ------------------------------------------------------- shared helpers
Spend(what) == used' = [used EXCEPT ![what] = @ + 1]
CanFault == used.faults < limits.faults

\* clearPendingTtsAck(): forget the pending request, cancel the timer the agent
\* still holds, call the resolver.  mq and tm are the queue and the armed
\* timers the caller leaves behind.
ClearPendingTtsAck(mq, tm) ==
    /\ pendingTtsAckResolve' = Null
    /\ pendingTtsAckId' = Null
    /\ pendingTtsAckTimer' = Null
    /\ timers' = tm \ {pendingTtsAckTimer}
    /\ micro' = IF pendingTtsAckResolve # Null THEN Append(mq, pendingTtsAckResolve) ELSE mq

\* createTraceStep(step)
CreateTraceStep(kind) ==
    traceSteps' = IF isSaveTraceEnabled THEN Append(traceSteps, kind) ELSE traceSteps

\* a call of stop(): its synchronous prefix runs before any other callback
FreshTeardown == [pc |-> "prefix", sTrace |-> FALSE, sThoughts |-> FALSE,
                  sShots |-> FALSE, closing |-> Null]
CallStop(mq) ==
    /\ teardowns' = teardowns (+) SetToBag({FreshTeardown})
    /\ micro' = Append(mq, 0)

\* ---------------------------------------------------------------- start()
\* POST /start with a url: 409 while a run is active, else agent.start(...)
\* up to its first await (initializeRunStorage).
StartRejected ==
    /\ micro = <<>>
    /\ isRunning
    /\ Emit(<<>>, "POST /start 409")
    /\ UNCHANGED <<agentVars, procVars, envVars>>

\* a start() without its guard
AlwaysMayStart == TRUE

\* if (this.isRunning) return;
MayStart == ~isRunning

StartAccepted(o) ==
    /\ micro = <<>>
    /\ MayStart
    /\ used.starts < limits.starts
    /\ o \in limits.options
    /\ LET n == used.starts + 1 IN
        /\ isRunning' = TRUE
        /\ isTtsEnabled' = o.tts
        /\ isSaveTraceEnabled' = o.trace
        /\ isSaveThoughtsEnabled' = o.thoughts
        /\ isSaveScreenshotsEnabled' = o.shots
        /\ history' = <<>>
        /\ failedTargetIds' = [t \in Targets |-> 0]
        /\ stagnationCounter' = 0
        /\ traceSteps' = <<>>
        /\ traceSavedThisRun' = FALSE
        /\ thoughtLog' = 0 /\ stepLog' = 0 /\ errorLog' = 0
        /\ currentRunDir' = FALSE
        /\ ClearPendingTtsAck(micro, timers)
        /\ Emit(<<Status("starting")>>, "POST /start 200")
        /\ starts' = [starts EXCEPT ![n] = [pc |-> "launch"]]
        /\ Spend("starts")
        /\ UNCHANGED <<refVars, loops, teardowns, liveBrowsers, livePages, ttsSeq, limits, call, files>>

\* catch (e) { this.emit('error', e); this.stop(); }
StartCatch(n) ==
    /\ starts' = [starts EXCEPT ![n] = [pc |-> "done"]]
    /\ Emit(<<Ev("error", "start")>>, "start")
    /\ Logged(<<Ev("error", "start")>>)
    /\ CallStop(micro)
    /\ UNCHANGED loops

\* initializeRunStorage and chromium.launch have returned (or thrown)
StartLaunched(n) ==
    /\ micro = <<>>
    /\ starts[n].pc = "launch"
    /\ \/ /\ currentRunDir' = TRUE
          /\ files' = NoFiles
          /\ browser' = n
          /\ liveBrowsers' = liveBrowsers \cup {n}
          /\ starts' = [starts EXCEPT ![n] = [pc |-> "context"]]
          /\ Emit(<<>>, "start") /\ Logged(<<>>)
          /\ UNCHANGED <<context, page, loops, teardowns, micro, used>>
       \/ /\ CanFault /\ Spend("faults")
          /\ StartCatch(n)
          /\ UNCHANGED <<currentRunDir, refVars, liveBrowsers, files>>
    /\ UNCHANGED <<isRunning, isTtsEnabled, flagVars, runVars, traceSteps,
                   traceSavedThisRun, ttsVars, livePages, timers, ttsSeq, limits, call>>

\* browser.newContext and context.newPage have returned (or thrown: the
\* browser was closed meanwhile); handlers attached, the session thoughts
\* emitted, page.goto called.
StartContext(n) ==
    /\ micro = <<>>
    /\ starts[n].pc = "context"
    /\ IF n \in liveBrowsers
       THEN /\ context' = n /\ page' = n
            /\ livePages' = livePages \cup {n}
            /\ starts' = [starts EXCEPT ![n] = [pc |-> "goto"]]
            /\ Emit(<<Thought("session")>>, "start") /\ Logged(<<Thought("session")>>)
            /\ UNCHANGED <<loops, teardowns, micro>>
       ELSE /\ StartCatch(n)
            /\ UNCHANGED <<context, page, livePages>>
    /\ UNCHANGED <<isRunning, isTtsEnabled, flagVars, browser, runVars, traceSteps,
                   traceSavedThisRun, currentRunDir, ttsVars, liveBrowsers, timers,
                   ttsSeq, used, limits, call, files>>

\* page.goto has returned or thrown (a warning thought); createTraceStep;
\* this.page.waitForTimeout(2000) called: a TypeError when this.page is null.
StartGoto(n) ==
    /\ micro = <<>>
    /\ starts[n].pc = "goto"
    /\ CreateTraceStep("goto")
    /\ IF page # Null
       THEN /\ starts' = [starts EXCEPT ![n] = [pc |-> "hydrate"]]
            /\ Emit(<<>>, "start") /\ Logged(<<>>)
            /\ UNCHANGED <<loops, teardowns, micro>>
       ELSE StartCatch(n)
    /\ UNCHANGED <<isRunning, isTtsEnabled, flagVars, refVars, runVars,
                   traceSavedThisRun, currentRunDir, ttsVars, envVars>>

\* ------------------------------------------------------------------ loop()
Seen(lr) == IF lr.stopSeen = 1 THEN [lr EXCEPT !.stopSeen = 2] ELSE lr
DoneLoop == [pc |-> "done", dec |-> NoDecision, stepCount |-> 0, stopSeen |-> 0,
             on |-> Null]
By(l) == "loop"

\* while (this.isRunning) { if (!this.page || this.page.isClosed()) break; ...
LoopCondition == isRunning /\ page # Null /\ page \in livePages

\* where loop l goes next: a suspension point, the head of the while loop,
\* or the exit (await this.stop()).
LoopNext(l, lr, target, mq) ==
    LET tgt == IF target = "head"
               THEN (IF LoopCondition THEN "cookie" ELSE "exit")
               ELSE target
    IN  /\ loops' = [loops EXCEPT ![l] =
                        IF tgt = "exit" THEN DoneLoop
                        ELSE IF tgt = "cookie"
                             THEN [lr EXCEPT !.pc = "cookie", !.stepCount = @ + 1]
                             ELSE [lr EXCEPT !.pc = tgt]]
        /\ IF tgt = "exit"
           THEN CallStop(mq)
           ELSE teardowns' = teardowns /\ micro' = mq

\* waitForTimeout(2000) and initializeCursor have returned (or thrown: the
\* page was closed); loop() runs to its first await.
StartHydrate(n) ==
    /\ micro = <<>>
    /\ starts[n].pc = "hydrate"
    /\ IF page # Null /\ page \in livePages
       THEN /\ starts' = [starts EXCEPT ![n] = [pc |-> "done"]]
            /\ Emit(<<Ev("cursor", "init")>>, "start") /\ Logged(<<>>)
            /\ LoopNext(n, IdleLoop, "head", micro)
       ELSE StartCatch(n)
    /\ UNCHANGED <<isRunning, isTtsEnabled, flagVars, refVars, runVars, traceSteps,
                   traceSavedThisRun, currentRunDir, ttsVars, envVars>>

\* what a loop continuation leaves alone unless said otherwise
LoopFrame ==
    UNCHANGED <<isRunning, isTtsEnabled, flagVars, refVars, traceSavedThisRun,
                currentRunDir, starts, liveBrowsers, livePages, limits, call, files>>

\* a loop that asks the model right after the cookie pass
LoopCookieLate(l) ==
    /\ micro = <<>>
    /\ loops[l].pc = "cookie"
    /\ Emit(<<Status("scanning")>>, By(l)) /\ Logged(<<>>)
    /\ LoopNext(l, Seen(loops[l]), "llm", micro)
    /\ LoopFrame
    /\ UNCHANGED <<runVars, traceSteps, ttsVars, timers, ttsSeq, used>>

\* handleCookieBanner has returned (it never throws); status scanning
LoopCookie(l) ==
    /\ micro = <<>>
    /\ loops[l].pc = "cookie"
    /\ Emit(<<Status("scanning")>>, By(l)) /\ Logged(<<>>)
    /\ LoopNext(l, Seen(loops[l]), "som", micro)
    /\ LoopFrame
    /\ UNCHANGED <<runVars, traceSteps, ttsVars, timers, ttsSeq, used>>

\* injectSoM (raced against 5 s), ensureCursorReady and page.screenshot have
\* returned or thrown.
LoopSom(l) ==
    /\ micro = <<>>
    /\ loops[l].pc = "som"
    /\ LET lr == Seen(loops[l]) IN
       IF page = Null
       THEN \* injectSoM(null) throws: thought; this.page.screenshot throws: break
            /\ Emit(<<Thought("som-skipped")>>, By(l)) /\ Logged(<<Thought("som-skipped")>>)
            /\ LoopNext(l, lr, "exit", micro)
            /\ UNCHANGED used
       ELSE IF page \notin livePages
       THEN \* injectSoM rejects: thought; ensureVisualCursor rejects: outer catch
            /\ Emit(<<Thought("som-skipped"), Thought("error")>>, By(l))
            /\ Logged(<<Thought("som-skipped"), Thought("error")>>)
            /\ LoopNext(l, lr, "errwait", micro)
            /\ UNCHANGED used
       ELSE \* this.page.screenshot(...) called on the active page
            \/ /\ Emit(<<>>, By(l)) /\ Logged(<<>>)
               /\ LoopNext(l, [lr EXCEPT !.on = page], "shot", micro)
               /\ UNCHANGED used
            \/ /\ CanFault /\ Spend("faults")
               /\ Emit(<<Thought("som-skipped")>>, By(l))
               /\ Logged(<<Thought("som-skipped")>>)
               /\ LoopNext(l, [lr EXCEPT !.on = page], "shot", micro)
    /\ LoopFrame
    /\ UNCHANGED <<runVars, traceSteps, ttsVars, timers, ttsSeq>>

\* page.screenshot of the page it was called on has returned (screenshot
\* event, persistStepScreenshot, status thinking, the model is asked) or has
\* rejected because that page was closed meanwhile (break).
LoopShot(l) ==
    /\ micro = <<>>
    /\ loops[l].pc = "shot"
    /\ LET lr == [Seen(loops[l]) EXCEPT !.on = Null] IN
       IF loops[l].on \in livePages
       THEN /\ Emit(<<Ev("screenshot", "png"), Status("thinking")>>, By(l))
            /\ Logged(<<>>)
            /\ LoopNext(l, lr, "llm", micro)
       ELSE /\ Emit(<<>>, By(l)) /\ Logged(<<>>)
            /\ LoopNext(l, lr, "exit", micro)
    /\ LoopFrame
    /\ UNCHANGED <<runVars, traceSteps, ttsVars, timers, ttsSeq, used>>

\* detectStagnation(): the counter after the call and the value returned
IsActionable(s) == s.action \in {"click", "type", "scroll"}
PairKey(s) == <<s.action, s.targetId>>
LastN(seq, k) == SubSeq(seq, (IF Len(seq) > k THEN Len(seq) - k + 1 ELSE 1), Len(seq))
LoopLike(recent) ==
    LET actionable == {i \in DOMAIN recent : IsActionable(recent[i])}
        uniqueTargets == {PairKey(recent[i]) : i \in actionable}
    IN  Cardinality(actionable) >= MinActionable
        /\ Cardinality(uniqueTargets) <= MaxUniqueTargets
Max0(x) == IF x > 0 THEN x ELSE 0
\* a detectStagnation() that gives up one turn later
DetectStagnationSlow(hist, counter) ==
    LET recent == LastN(hist, StagnationWindow) IN
    IF Len(recent) < StagnationWindow
    THEN [counter |-> Max0(counter - 1), stop |-> FALSE]
    ELSE LET c == IF LoopLike(recent) THEN counter + 1 ELSE Max0(counter - 1)
         IN  [counter |-> c, stop |-> c > StagnationLimit]

DetectStagnation(hist, counter) ==
    LET recent == LastN(hist, StagnationWindow) IN
    IF Len(recent) < StagnationWindow
    THEN [counter |-> Max0(counter - 1), stop |-> FALSE]
    ELSE LET c == IF LoopLike(recent) THEN counter + 1 ELSE Max0(counter - 1)
         IN  [counter |-> c, stop |-> c >= StagnationLimit]

\* a termination check that lets done and stop through to executeAction
EmitStepOn(l, lr, evs, mq) ==
    LET step == <<Ev("step", lr.dec.action)>>
    IN  /\ Emit(evs \o step \o <<Status("acting")>>, By(l))
        /\ Logged(evs \o step)
        /\ IF page = Null
           THEN LoopNext(l, lr, "head", mq)
           ELSE LoopNext(l, lr, "act", mq)

\* emit('step', ...), the termination check, status acting, executeAction
\* up to its first await.  evs: what the continuation has emitted so far.
EmitStep(l, lr, evs, mq) ==
    LET d == lr.dec
        step == <<Ev("step", d.action)>>
    IN  IF d.action \in {"done", "stop"}
        THEN /\ Emit(evs \o step \o <<Thought("completed")>>, By(l))
             /\ Logged(evs \o step \o <<Thought("completed")>>)
             /\ LoopNext(l, lr, "exit", mq)
        ELSE /\ Emit(evs \o step \o <<Status("acting")>>, By(l))
             /\ Logged(evs \o step)
             /\ IF page = Null
                THEN \* executeAction returns; this.page.waitForTimeout throws, ignored
                     LoopNext(l, lr, "head", mq)
                ELSE LoopNext(l, lr, "act", mq)

\* llm.generate has returned decision d
LoopDecide(l, d) ==
    /\ micro = <<>>
    /\ loops[l].pc = "llm"
    /\ used.turns < limits.turns
    /\ d = Usual \/ (d \in OddDecisions /\ used.odd < limits.odd)
    /\ used' = [used EXCEPT !.turns = @ + 1,
                            !.odd = IF d = Usual THEN @ ELSE @ + 1]
    /\ history' = Append(history, d)
    /\ LET r == DetectStagnation(history', stagnationCounter)
           lr == [Seen(loops[l]) EXCEPT !.dec = d]
       IN  /\ stagnationCounter' = r.counter
           /\ IF r.stop
              THEN /\ Emit(<<Thought("circles")>>, By(l))
                   /\ Logged(<<Thought("circles")>>)
                   /\ LoopNext(l, lr, "exit", micro)
              ELSE IF isRunning /\ isTtsEnabled
              THEN \* speakThoughtAndWait: requestTtsAudio called
                   /\ Emit(<<Thought("decision")>>, By(l))
                   /\ Logged(<<Thought("decision")>>)
                   /\ LoopNext(l, lr, "ttsreq", micro)
              ELSE EmitStep(l, lr, <<Thought("decision")>>, micro)
    /\ LoopFrame
    /\ UNCHANGED <<failedTargetIds, traceSteps, ttsVars, timers, ttsSeq>>

\* requestTtsAudio has returned: no audio (a thought, go on), or audio: the
\* request is registered, the watchdog armed and 'tts' emitted; the server
\* acknowledges at once when no client took the broadcast.
LoopTtsAudio(l) ==
    /\ micro = <<>>
    /\ loops[l].pc = "ttsreq"
    /\ LET lr == Seen(loops[l])
           id == ttsSeq + 1
       IN
       \/ /\ CanFault /\ Spend("faults")
          /\ EmitStep(l, lr, <<Thought("tts-failed")>>, micro)
          /\ UNCHANGED <<ttsVars, timers, ttsSeq>>
       \/ /\ ttsSeq' = id
          /\ Emit(<<Ev("tts", "audio")>>, By(l)) /\ Logged(<<>>)
          /\ loops' = [loops EXCEPT ![l] = [lr EXCEPT !.pc = "ttswait"]]
          /\ teardowns' = teardowns
          /\ UNCHANGED used
          /\ \/ \* delivered > 0
                /\ pendingTtsAckId' = id
                /\ pendingTtsAckResolve' = l
                /\ pendingTtsAckTimer' = id
                /\ timers' = timers \cup {id}
                /\ micro' = micro
             \/ \* delivered = 0: notifyTtsPlaybackDone(id) clears what was just set
                /\ pendingTtsAckId' = Null
                /\ pendingTtsAckResolve' = Null
                /\ pendingTtsAckTimer' = Null
                /\ timers' = timers
                /\ micro' = Append(micro, l)
    /\ LoopFrame
    /\ UNCHANGED <<runVars, traceSteps>>

\* the speech promise was resolved: the loop goes on after the await
LoopResumeSpeech(l) ==
    /\ micro # <<>> /\ Head(micro) = l
    /\ IF loops[l].pc = "ttswait"
       THEN EmitStep(l, Seen(loops[l]), <<>>, Tail(micro))
       ELSE \* a resolver called again: a settled promise stays settled
            /\ micro' = Tail(micro)
            /\ Emit(<<>>, By(l)) /\ Logged(<<>>)
            /\ UNCHANGED <<loops, teardowns>>
    /\ LoopFrame
    /\ UNCHANGED <<runVars, traceSteps, ttsVars, timers, ttsSeq, used>>

\* executeAction has returned or thrown
MarkTargetFailure(t) ==
    IF t = NoTarget THEN failedTargetIds
    ELSE [failedTargetIds EXCEPT ![t] = @ + 1]
\* the catch of loop(): the ledger is charged when the message names a mark
CatchCharge(ledger, t) == [ledger EXCEPT ![t] = @ + 1]
CursorEvents(d) == IF d.action \in {"click", "scroll", "type"}
                   THEN <<Ev("cursor", "move")>> ELSE <<>>

LoopAct(l) ==
    /\ micro = <<>>
    /\ loops[l].pc = "act"
    /\ LET lr == Seen(loops[l])
           d == lr.dec
       IN
       IF page = Null \/ page \notin livePages
       THEN \* a page operation throws; the message names no mark
            /\ Emit(<<Thought("error")>>, By(l)) /\ Logged(<<Thought("error")>>)
            /\ LoopNext(l, lr, "errwait", micro)
            /\ UNCHANGED <<failedTargetIds, traceSteps, used>>
       ELSE \/ /\ Emit(CursorEvents(d), By(l)) /\ Logged(<<>>)
               /\ CreateTraceStep(d.action)
               /\ LoopNext(l, lr, "settle", micro)
               /\ UNCHANGED <<failedTargetIds, used>>
            \/ \* Element <id> not found / has no bounding box
               /\ d.action = "click" /\ d.targetId # NoTarget
               /\ CanFault /\ Spend("faults")
               /\ failedTargetIds' = CatchCharge(MarkTargetFailure(d.targetId), d.targetId)
               /\ Emit(<<Thought("error")>>, By(l)) /\ Logged(<<Thought("error")>>)
               /\ LoopNext(l, lr, "errwait", micro)
               /\ UNCHANGED traceSteps
    /\ LoopFrame
    /\ UNCHANGED <<history, stagnationCounter, ttsVars, timers, ttsSeq>>

\* page.waitForTimeout(1000) has returned or thrown (ignored)
LoopSettle(l) ==
    /\ micro = <<>>
    /\ loops[l].pc = "settle"
    /\ Emit(<<>>, By(l)) /\ Logged(<<>>)
    /\ LoopNext(l, Seen(loops[l]), "head", micro)
    /\ LoopFrame
    /\ UNCHANGED <<runVars, traceSteps, ttsVars, timers, ttsSeq, used>>

\* page?.waitForTimeout(5000) of the catch has returned or thrown (ignored)
LoopErrWait(l) ==
    /\ micro = <<>>
    /\ loops[l].pc = "errwait"
    /\ Emit(<<>>, By(l)) /\ Logged(<<>>)
    /\ LoopNext(l, Seen(loops[l]), "head", micro)
    /\ LoopFrame
    /\ UNCHANGED <<runVars, traceSteps, ttsVars, timers, ttsSeq, used>>

\* ------------------------------------------------------------ speech gate
\* a notifyTtsPlaybackDone() that takes any id for the pending one
NotifyAnyId(requestId) ==
    /\ micro = <<>>
    /\ IF requestId = Null \/ pendingTtsAckId = Null
       THEN UNCHANGED <<ttsVars, timers, micro>>
       ELSE ClearPendingTtsAck(micro, timers)
    /\ Emit(<<>>, "tts_done")
    /\ UNCHANGED <<isRunning, isTtsEnabled, flagVars, refVars, runVars, traceSteps,
                   traceSavedThisRun, currentRunDir, thoughtLog, stepLog, errorLog,
                   starts, loops, teardowns, liveBrowsers, livePages, ttsSeq, used,
                   limits, call, files>>

\* WebSocket tts_done -> notifyTtsPlaybackDone(requestId); Null: no id
NotifyTtsPlaybackDone(requestId) ==
    /\ micro = <<>>
    /\ IF requestId = Null \/ pendingTtsAckId = Null \/ requestId # pendingTtsAckId
       THEN UNCHANGED <<ttsVars, timers, micro>>
       ELSE ClearPendingTtsAck(micro, timers)
    /\ Emit(<<>>, "tts_done")
    /\ UNCHANGED <<isRunning, isTtsEnabled, flagVars, refVars, runVars, traceSteps,
                   traceSavedThisRun, currentRunDir, thoughtLog, stepLog, errorLog,
                   starts, loops, teardowns, liveBrowsers, livePages, ttsSeq, used,
                   limits, call, files>>

\* the watchdog set for request k fires
TtsTimeout(k) ==
    /\ micro = <<>>
    /\ k \in timers
    /\ ClearPendingTtsAck(micro, timers \ {k})
    /\ Emit(<<>>, "timer")
    /\ UNCHANGED <<isRunning, isTtsEnabled, flagVars, refVars, runVars, traceSteps,
                   traceSavedThisRun, currentRunDir, thoughtLog, stepLog, errorLog,
                   starts, loops, teardowns, liveBrowsers, livePages, ttsSeq, used,
                   limits, call, files>>

\* WebSocket tts_toggle -> setTtsEnabled(enabled)
SetTtsEnabled(enabled) ==
    /\ micro = <<>>
    /\ isTtsEnabled' = enabled
    /\ Emit(<<>>, "tts_toggle")
    /\ UNCHANGED <<isRunning, flagVars, refVars, runVars, traceSteps,
                   traceSavedThisRun, currentRunDir, thoughtLog, stepLog, errorLog,
                   ttsVars, procVars, envVars>>

\* ------------------------------------------------------------ page events
\* page.on('close') / page.on('crash') of page p: recoverFromActivePageLoss
\* when p is the active page of a running agent.
LosesActivePage(p) == isRunning /\ page = p /\ p \in livePages
\* getFallbackPage(exclude): the open pages of this.context other than exclude
FallbackPages(gone) ==
    IF context = Null THEN {} ELSE (livePages \cap PagesOf(context)) \ gone
\* recoverFromActivePageLoss / switchToPage, when the pages `gone` close and
\* p is one of them: the active page, the run flag, the events, the trace
PageAfterLoss(p, gone) ==
    IF LosesActivePage(p) /\ FallbackPages(gone) # {}
    THEN CHOOSE q \in FallbackPages(gone) : TRUE ELSE page
RunningAfterLoss(p, gone) ==
    IF LosesActivePage(p) /\ FallbackPages(gone) = {} THEN FALSE ELSE isRunning
PageLossEvents(p, gone) ==
    IF ~LosesActivePage(p) THEN <<>>
    ELSE IF FallbackPages(gone) = {} THEN <<Thought("tab-lost")>>
    ELSE <<Thought("tab-lost"), Ev("cursor", "init"), Thought("tab-switch")>>
TraceAfterLoss(p, gone) ==
    IF LosesActivePage(p) /\ FallbackPages(gone) # {} /\ isSaveTraceEnabled
    THEN Append(traceSteps, "tab-switch") ELSE traceSteps

\* the active page, when it is one of the pages that close with context c
ClosedActive(c) == IF page \in PagesOf(c) THEN page ELSE Null

\* the user closes the tab, or it crashes (the awaits of switchToPage,
\* bringToFront and initializeCursor, are taken with the handler)
PageClose(p) ==
    /\ micro = <<>>
    /\ p \in livePages
    /\ CanFault /\ Spend("faults")
    /\ livePages' = livePages \ {p}
    /\ isRunning' = RunningAfterLoss(p, {p})
    /\ page' = PageAfterLoss(p, {p})
    /\ traceSteps' = TraceAfterLoss(p, {p})
    /\ Emit(PageLossEvents(p, {p}), "page") /\ Logged(PageLossEvents(p, {p}))
    /\ UNCHANGED <<isTtsEnabled, flagVars, browser, context, runVars,
                   traceSavedThisRun, currentRunDir, ttsVars, procVars, liveBrowsers,
                   timers, ttsSeq, limits, call, files>>

\* the active page opens a second tab: context.on('page') / page.on('popup')
\* -> followNewPage -> switchToPage (its awaits taken with the handler)
PageOpened(c) ==
    /\ micro = <<>>
    /\ limits.tabs
    /\ isRunning /\ context = c /\ page = c /\ c \in livePages
    /\ Tab(c) \notin livePages
    /\ livePages' = livePages \cup {Tab(c)}
    /\ page' = Tab(c)
    /\ CreateTraceStep("tab-switch")
    /\ Emit(<<Ev("cursor", "init"), Thought("tab-switch")>>, "page")
    /\ Logged(<<Thought("tab-switch")>>)
    /\ UNCHANGED <<isRunning, isTtsEnabled, flagVars, browser, context, runVars,
                   traceSavedThisRun, currentRunDir, ttsVars, procVars, liveBrowsers,
                   timers, ttsSeq, used, limits, call, files>>

\* ------------------------------------------------------------------ stop()
\* POST /stop -> agent.stop()
StopRequest ==
    /\ micro = <<>>
    /\ used.stops < limits.stops
    /\ Spend("stops")
    /\ CallStop(micro)
    /\ Emit(<<>>, "POST /stop")
    /\ UNCHANGED <<agentVars, starts, loops, liveBrowsers, livePages, timers, ttsSeq,
                   limits, call, files>>

\* the early returns of persistTraceArtifacts, persistThoughtArtifacts and
\* persistReportArtifacts, and the conditions of stop() around them
WantsTrace(r) ==
    r.sTrace /\ isSaveTraceEnabled /\ ~traceSavedThisRun /\ Len(traceSteps) > 0
    /\ currentRunDir
WantsThoughts(r) == r.sThoughts /\ isSaveThoughtsEnabled /\ currentRunDir
WantsReport(r) == (r.sTrace \/ r.sThoughts \/ r.sShots \/ stepLog > 0) /\ currentRunDir

\* the next await of stop() at or after `stage`; "final" when none is left
\* before status stopped
StageFrom(r, stage) ==
    IF stage = "trace" /\ WantsTrace(r) THEN "trace"
    ELSE IF stage \in {"trace", "thoughts"} /\ WantsThoughts(r) THEN "thoughts"
    ELSE IF stage \in {"trace", "thoughts", "report"} /\ WantsReport(r) THEN "report"
    ELSE "final"

Replace(old, new) == (teardowns (-) SetToBag({old})) (+) SetToBag({new})
Remove(old) == teardowns (-) SetToBag({old})

\* stop() from `stage` on, to its next await; evs: emitted so far
StopFrom(old, r, stage, evs) ==
    LET nxt == StageFrom(r, stage) IN
    IF nxt # "final"
    THEN /\ teardowns' = Replace(old, [r EXCEPT !.pc = nxt])
         /\ Emit(evs, "stop") /\ Logged(evs)
         /\ UNCHANGED <<flagVars, refVars>>
    ELSE /\ isSaveTraceEnabled' = FALSE
         /\ isSaveThoughtsEnabled' = FALSE
         /\ isSaveScreenshotsEnabled' = FALSE
         /\ Emit(evs \o <<Status("stopped")>>, "stop") /\ Logged(evs)
         /\ IF context # Null
            THEN /\ teardowns' = Replace(old, [r EXCEPT !.pc = "closeContext",
                                                         !.closing = context])
                 /\ UNCHANGED refVars
            ELSE IF browser # Null
            THEN /\ teardowns' = Replace(old, [r EXCEPT !.pc = "closeBrowser",
                                                         !.closing = browser])
                 /\ UNCHANGED refVars
            ELSE /\ teardowns' = Remove(old)
                 /\ page' = Null /\ context' = Null /\ browser' = Null

\* stop() up to its first await
StopPrefix ==
    /\ micro # <<>> /\ Head(micro) = 0
    /\ BagIn(FreshTeardown, teardowns)
    /\ isRunning' = FALSE
    /\ isTtsEnabled' = FALSE
    /\ ClearPendingTtsAck(Tail(micro), timers)
    /\ loops' = [l \in StartIds |->
                    IF LiveLoop(l) /\ loops[l].stopSeen = 0
                    THEN [loops[l] EXCEPT !.stopSeen = 1] ELSE loops[l]]
    /\ StopFrom(FreshTeardown,
                [FreshTeardown EXCEPT !.sTrace = isSaveTraceEnabled,
                                      !.sThoughts = isSaveThoughtsEnabled,
                                      !.sShots = isSaveScreenshotsEnabled],
                "trace", <<>>)
    /\ UNCHANGED <<runVars, traceSteps, traceSavedThisRun, currentRunDir, starts,
                   liveBrowsers, livePages, ttsSeq, used, limits, call, files>>

StopFrame ==
    UNCHANGED <<isTtsEnabled, runVars, traceSteps, currentRunDir, ttsVars, starts,
                loops, micro, liveBrowsers, timers, ttsSeq, limits, call>>

\* persistTraceArtifacts has returned (trace_saved) or thrown (a thought)
StopTraceWritten(r) ==
    /\ micro = <<>>
    /\ BagIn(r, teardowns) /\ r.pc = "trace"
    /\ \/ /\ traceSavedThisRun' = TRUE
          /\ files' = [files EXCEPT !.traceJson = Len(traceSteps)]
          /\ StopFrom(r, r, "thoughts", <<Ev("trace_saved", "files"), Thought("trace-saved")>>)
          /\ UNCHANGED used
       \/ /\ CanFault /\ Spend("faults")
          /\ StopFrom(r, r, "thoughts", <<Thought("trace-failed")>>)
          /\ UNCHANGED <<traceSavedThisRun, files>>
    /\ UNCHANGED <<isRunning, livePages>>
    /\ StopFrame

\* persistThoughtArtifacts has returned or thrown (a thought)
StopThoughtsWritten(r) ==
    /\ micro = <<>>
    /\ BagIn(r, teardowns) /\ r.pc = "thoughts"
    /\ \/ /\ files' = [files EXCEPT !.thoughtsJson = thoughtLog]
          /\ StopFrom(r, r, "report", <<>>)
          /\ UNCHANGED used
       \/ /\ CanFault /\ Spend("faults")
          /\ StopFrom(r, r, "report", <<Thought("thoughts-failed")>>)
          /\ UNCHANGED files
    /\ UNCHANGED <<isRunning, livePages, traceSavedThisRun>>
    /\ StopFrame

\* persistReportArtifacts has returned (report_ready) or thrown (a thought)
StopReportWritten(r) ==
    /\ micro = <<>>
    /\ BagIn(r, teardowns) /\ r.pc = "report"
    /\ \/ /\ files' = [files EXCEPT !.report = [thoughts |-> thoughtLog, steps |-> stepLog,
                                                 errors |-> errorLog]]
          /\ StopFrom(r, r, "final", <<Ev("report_ready", "files"), Thought("report-ready")>>)
          /\ UNCHANGED used
       \/ /\ CanFault /\ Spend("faults")
          /\ StopFrom(r, r, "final", <<Thought("report-failed")>>)
          /\ UNCHANGED files
    /\ UNCHANGED <<isRunning, livePages, traceSavedThisRun>>
    /\ StopFrame

\* context.close() has returned, or thrown (stop() rejects there)
StopContextClosed(r) ==
    /\ micro = <<>>
    /\ BagIn(r, teardowns) /\ r.pc = "closeContext"
    /\ \/ /\ livePages' = livePages \ PagesOf(r.closing)
          /\ isRunning' = RunningAfterLoss(ClosedActive(r.closing), PagesOf(r.closing))
          /\ Emit(PageLossEvents(ClosedActive(r.closing), PagesOf(r.closing)), "stop")
          /\ Logged(PageLossEvents(ClosedActive(r.closing), PagesOf(r.closing)))
          /\ IF browser # Null
             THEN /\ teardowns' = Replace(r, [r EXCEPT !.pc = "closeBrowser",
                                                       !.closing = browser])
                  /\ UNCHANGED refVars
             ELSE /\ teardowns' = Remove(r)
                  /\ page' = Null /\ context' = Null /\ browser' = Null
          /\ UNCHANGED used
       \/ /\ CanFault /\ Spend("faults")
          /\ teardowns' = Remove(r)
          /\ Emit(<<>>, "stop") /\ Logged(<<>>)
          /\ UNCHANGED <<livePages, isRunning, refVars>>
    /\ UNCHANGED <<flagVars, traceSavedThisRun, files>>
    /\ StopFrame

\* browser.close() has returned, or thrown (stop() rejects there)
StopBrowserClosed(r) ==
    /\ micro = <<>>
    /\ BagIn(r, teardowns) /\ r.pc = "closeBrowser"
    /\ teardowns' = Remove(r)
    /\ \/ /\ liveBrowsers' = liveBrowsers \ {r.closing}
          /\ livePages' = livePages \ PagesOf(r.closing)
          /\ isRunning' = RunningAfterLoss(ClosedActive(r.closing), PagesOf(r.closing))
          /\ Emit(PageLossEvents(ClosedActive(r.closing), PagesOf(r.closing)), "stop")
          /\ Logged(PageLossEvents(ClosedActive(r.closing), PagesOf(r.closing)))
          /\ page' = Null /\ context' = Null /\ browser' = Null
          /\ UNCHANGED used
       \/ /\ CanFault /\ Spend("faults")
          /\ Emit(<<>>, "stop") /\ Logged(<<>>)
          /\ UNCHANGED <<liveBrowsers, livePages, isRunning, refVars>>
    /\ UNCHANGED <<flagVars, traceSavedThisRun>>
    /\ UNCHANGED <<isTtsEnabled, runVars, traceSteps, currentRunDir, ttsVars, starts,
                   loops, micro, timers, ttsSeq, limits, call, files>>

\* ------------------------------------------------------------ next state
TeardownRecords == BagToSet(teardowns)

Next ==
    \/ StartRejected
    \/ \E o \in limits.options : StartAccepted(o)
    \/ \E n \in StartIds : StartLaunched(n)
    \/ \E n \in StartIds : StartContext(n)
    \/ \E n \in StartIds : StartGoto(n)
    \/ \E n \in StartIds : StartHydrate(n)
    \/ \E l \in StartIds : LoopCookie(l)
    \/ \E l \in StartIds : LoopSom(l)
    \/ \E l \in StartIds : LoopShot(l)
    \/ \E l \in StartIds, d \in {Usual} \cup OddDecisions : LoopDecide(l, d)
    \/ \E l \in StartIds : LoopTtsAudio(l)
    \/ \E l \in StartIds : LoopResumeSpeech(l)
    \/ \E l \in StartIds : LoopAct(l)
    \/ \E l \in StartIds : LoopSettle(l)
    \/ \E l \in StartIds : LoopErrWait(l)
    \/ \E id \in 0..(ttsSeq + 1) : NotifyTtsPlaybackDone(id)
    \/ \E k \in timers : TtsTimeout(k)
    \/ \E b \in BOOLEAN : SetTtsEnabled(b)
    \/ \E p \in livePages : PageClose(p)
    \/ StopRequest
    \/ StopPrefix
    \/ \E r \in TeardownRecords : StopTraceWritten(r)
    \/ \E r \in TeardownRecords : StopThoughtsWritten(r)
    \/ \E r \in TeardownRecords : StopReportWritten(r)
    \/ \E r \in TeardownRecords : StopContextClosed(r)
    \/ \E r \in TeardownRecords : StopBrowserClosed(r)

Spec == Init /\ [][Next]_vars

\* start and stop requests around one another, no faults, no artifacts
NextRestart ==
    \/ StartRejected
    \/ \E o \in limits.options : StartAccepted(o)
    \/ \E n \in StartIds : StartLaunched(n)
    \/ \E n \in StartIds : StartContext(n)
    \/ \E n \in StartIds : StartGoto(n)
    \/ \E n \in StartIds : StartHydrate(n)
    \/ \E l \in StartIds : LoopCookie(l)
    \/ \E l \in StartIds : LoopSom(l)
    \/ \E l \in StartIds : LoopShot(l)
    \/ \E l \in StartIds : LoopDecide(l, Usual)
    \/ \E l \in StartIds : LoopTtsAudio(l)
    \/ \E l \in StartIds : LoopResumeSpeech(l)
    \/ \E l \in StartIds : LoopAct(l)
    \/ \E l \in StartIds : LoopSettle(l)
    \/ \E l \in StartIds : LoopErrWait(l)
    \/ \E id \in 0..(ttsSeq + 1) : NotifyTtsPlaybackDone(id)
    \/ \E k \in timers : TtsTimeout(k)
    \/ \E b \in BOOLEAN : SetTtsEnabled(b)
    \/ StopRequest
    \/ StopPrefix
    \/ \E r \in TeardownRecords : StopReportWritten(r)
    \/ \E r \in TeardownRecords : StopContextClosed(r)
    \/ \E r \in TeardownRecords : StopBrowserClosed(r)

SpecRestart == InitRestart /\ [][NextRestart]_vars

\* one run left alone: no stop request, no fault, voice off
NextLoop ==
    \/ StartRejected
    \/ \E o \in limits.options : StartAccepted(o)
    \/ \E n \in StartIds : StartLaunched(n)
    \/ \E n \in StartIds : StartContext(n)
    \/ \E n \in StartIds : StartGoto(n)
    \/ \E n \in StartIds : StartHydrate(n)
    \/ \E l \in StartIds : LoopCookie(l)
    \/ \E l \in StartIds : LoopSom(l)
    \/ \E l \in StartIds : LoopShot(l)
    \/ \E l \in StartIds, d \in {Usual} \cup OddDecisions : LoopDecide(l, d)
    \/ \E l \in StartIds : LoopAct(l)
    \/ \E l \in StartIds : LoopSettle(l)
    \/ StopPrefix
    \/ \E r \in TeardownRecords : StopReportWritten(r)
    \/ \E r \in TeardownRecords : StopContextClosed(r)
    \/ \E r \in TeardownRecords : StopBrowserClosed(r)

SpecLoop == InitLoop /\ [][NextLoop]_vars

\* one run whose pages open, close and crash
NextTabs ==
    \/ StartRejected
    \/ \E o \in limits.options : StartAccepted(o)
    \/ \E n \in StartIds : StartLaunched(n)
    \/ \E n \in StartIds : StartContext(n)
    \/ \E n \in StartIds : StartGoto(n)
    \/ \E n \in StartIds : StartHydrate(n)
    \/ \E l \in StartIds : LoopCookie(l)
    \/ \E l \in StartIds : LoopSom(l)
    \/ \E l \in StartIds : LoopShot(l)
    \/ \E l \in StartIds : LoopDecide(l, Usual)
    \/ \E l \in StartIds : LoopAct(l)
    \/ \E l \in StartIds : LoopSettle(l)
    \/ \E l \in StartIds : LoopErrWait(l)
    \/ \E p \in livePages : PageClose(p)
    \/ \E c \in StartIds : PageOpened(c)
    \/ StopPrefix
    \/ \E r \in TeardownRecords : StopReportWritten(r)
    \/ \E r \in TeardownRecords : StopContextClosed(r)
    \/ \E r \in TeardownRecords : StopBrowserClosed(r)

SpecTabs == InitTabs /\ [][NextTabs]_vars

\* runs one after another, start requests at any moment
SpecBusy == InitBusy /\ [][NextLoop]_vars

\* ------------------------------------------------------------ properties
LiveLoops == {l \in StartIds : LiveLoop(l)}
Waiters == {l \in StartIds : loops[l].pc = "ttswait"}
Queued == {micro[i] : i \in DOMAIN micro}
Types(evs) == {evs[i].type : i \in DOMAIN evs}

\* one continuation of loop l
LoopStep(l) ==
    \/ LoopCookie(l) \/ LoopSom(l) \/ LoopShot(l)
    \/ \E d \in {Usual} \cup OddDecisions : LoopDecide(l, d)
    \/ LoopTtsAudio(l) \/ LoopResumeSpeech(l)
    \/ LoopAct(l) \/ LoopSettle(l) \/ LoopErrWait(l)

\* nothing of the agent is in flight
Quiescent ==
    /\ micro = <<>> /\ teardowns = EmptyBag
    /\ \A n \in StartIds : ~LiveStart(n) /\ ~LiveLoop(n)

\* C1: at most one run is active: never two live control loops, never two
\* browser sessions open.
C1_SingleActiveRun ==
    Cardinality(LiveLoops) <= 1 /\ Cardinality(liveBrowsers) <= 1

\* C2: once stop() was called while the loop was suspended, the loop emits
\* no step, thought, cursor or screenshot event after the continuation that
\* was in flight (its first one after the stop).
C2_SilentAfterStop ==
    [][\A l \in StartIds :
          (loops[l].stopSeen = 2 /\ LoopStep(l))
          => Types(emitted'.events) \cap {"step", "thought", "cursor", "screenshot"} = {}]_vars

\* C3: no step event is emitted while a speech request is outstanding.
C3_NoStepWhileSpeaking ==
    [][stepLog' > stepLog => (pendingTtsAckId = Null /\ pendingTtsAckId' = Null)]_vars

\* C4: every speech wait can end: a loop suspended in the speech gate is the
\* one the pending resolver resumes, or is already released.
C4_WaiterHeldByResolver ==
    \A l \in Waiters : pendingTtsAckResolve = l \/ l \in Queued

\* C5: notifyTtsPlaybackDone(id) with an id that is empty, or is not the id of
\* the outstanding request, or with nothing outstanding, leaves the pending id,
\* resolver, timer and the suspended loops as they are; with the id of the
\* outstanding request it clears all three and releases the waiter.
C5_OnlyMatchingIdReleases ==
    [][\A id \in 0..(ttsSeq + 1) :
          NotifyTtsPlaybackDone(id)
          => IF id # Null /\ id = pendingTtsAckId
             THEN /\ pendingTtsAckId' = Null /\ pendingTtsAckResolve' = Null
                  /\ pendingTtsAckTimer' = Null
                  /\ pendingTtsAckTimer \notin timers'
                  /\ micro' = <<pendingTtsAckResolve>>
             ELSE UNCHANGED <<ttsVars, timers, loops, micro>>]_vars

\* C5 happens: a tts_done was handled and a request is still outstanding with
\* its loop suspended.
C5_Witness ==
    /\ emitted.by = "tts_done"
    /\ pendingTtsAckId # Null /\ pendingTtsAckResolve \in Waiters

\* C6: at most one speech request is outstanding: one waiter at most, and no
\* watchdog armed other than the pending request's.
C6_SingleSlot ==
    /\ Cardinality(Waiters \ Queued) <= 1
    /\ timers \subseteq {pendingTtsAckTimer}

\* C7: setTtsEnabled(false) while a speech request is outstanding cancels the
\* wait at once: the request is cleared and its waiter released.
C7_VoiceOffCancelsWait ==
    [][(SetTtsEnabled(FALSE) /\ pendingTtsAckId # Null)
          => (pendingTtsAckId' = Null /\ micro' # <<>>)]_vars

\* C8: the condition of the claim, from its words: of the last ten entries at
\* least 8 are click/type/scroll and at most 3 (action, targetId) pairs differ
CirclesAt(hist, k) ==
    /\ k >= 10 /\ k <= Len(hist)
    /\ LET window == {i \in (k - 9)..k : hist[i].action \in {"click", "type", "scroll"}}
       IN  /\ Cardinality(window) >= 8
           /\ Cardinality({<<hist[i].action, hist[i].targetId>> : i \in window}) <= 3
ThirdCircle(hist) ==
    LET k == Len(hist) IN
    CirclesAt(hist, k) /\ CirclesAt(hist, k - 1) /\ CirclesAt(hist, k - 2)

\* C8: the turn that makes three consecutive loop-like turns ends the loop:
\* the going-in-circles thought and nothing else is emitted, no step event, no
\* action, and when all has settled the status is stopped.
C8_StagnationExit ==
    /\ [][\A l \in StartIds, d \in {Usual} \cup OddDecisions :
             (LoopDecide(l, d) /\ ThirdCircle(history'))
             => /\ emitted'.events = <<Thought("circles")>>
                /\ stepLog' = stepLog
                /\ loops'[l].pc = "done"]_vars
    /\ [](Quiescent /\ ThirdCircle(history)
             => status = "stopped" /\ stepLog = Len(history) - 1)

\* C8 happens: a run has ended on its third loop-like turn.
C8_Witness ==
    /\ Quiescent /\ ThirdCircle(history)
    /\ status = "stopped" /\ stagnationCounter >= StagnationLimit

\* C9: when a run has ended and nothing is in flight any more, the teardown
\* has completed: no browser is left open, the page/context/browser
\* references are cleared and the status is stopped.
C9_TeardownCompletes ==
    (Quiescent /\ used.starts > 0)
    => /\ liveBrowsers = {} /\ livePages = {}
       /\ page = Null /\ context = Null /\ browser = Null
       /\ status = "stopped"

\* C10: a start request that arrives while a run is active is answered 409
\* and changes nothing of the agent; no event is emitted.
C10_StartWhileActiveRejected ==
    [][\A o \in limits.options :
          (isRunning /\ (StartRejected \/ StartAccepted(o)))
          => /\ emitted' = [by |-> "POST /start 409", events |-> <<>>]
             /\ UNCHANGED <<agentVars, procVars, liveBrowsers, livePages, timers, status>>]_vars

\* C10 happens: a start request was answered 409 during a run with a live loop.
C10_Witness ==
    /\ emitted.by = "POST /start 409"
    /\ isRunning /\ LiveLoops # {} /\ Len(history) > 0

\* C11: while the run is flagged running and its active page is open (after a
\* switch to a surviving page, too), the loop does not end unless a decision
\* ends it: the run does not stop because a tab was lost when another is open.
C11_RunSurvivesTabLoss ==
    [][\A l \in StartIds :
          (LoopStep(l) /\ loops'[l].pc = "done")
          => \/ ~isRunning \/ page = Null \/ page \notin livePages
             \/ \E d \in {Usual} \cup OddDecisions : LoopDecide(l, d)
             \/ LoopTtsAudio(l) \/ LoopResumeSpeech(l)]_vars

\* ---------------------------------------------------- normalizeDecision
\* text is a sequence of characters
LowerLetters == <<"a", "c", "d", "e", "f", "h", "i", "k", "l", "n", "o", "p", "r",
                  "s", "t", "v", "w", "y">>
UpperLetters == <<"A", "C", "D", "E", "F", "H", "I", "K", "L", "N", "O", "P", "R",
                  "S", "T", "V", "W", "Y">>
WhiteSpace == {" ", "\n", "\t"}

\* String.prototype.toLowerCase
ToLowerChar(ch) ==
    IF \E i \in DOMAIN UpperLetters : UpperLetters[i] = ch
    THEN LowerLetters[CHOOSE i \in DOMAIN UpperLetters : UpperLetters[i] = ch]
    ELSE ch
ToLowerCase(text) == [i \in DOMAIN text |-> ToLowerChar(text[i])]

\* String.prototype.trim
RECURSIVE TrimStart(_)
TrimStart(text) ==
    IF text # <<>> /\ Head(text) \in WhiteSpace THEN TrimStart(Tail(text)) ELSE text
RECURSIVE TrimEnd(_)
TrimEnd(text) ==
    IF text # <<>> /\ text[Len(text)] \in WhiteSpace
    THEN TrimEnd(SubSeq(text, 1, Len(text) - 1)) ELSE text
Trim(text) == TrimEnd(TrimStart(text))

\* the literals of normalizeDecision
Chars(word) ==
    CASE word = "click" -> <<"c", "l", "i", "c", "k">>
      [] word = "scroll" -> <<"s", "c", "r", "o", "l", "l">>
      [] word = "type" -> <<"t", "y", "p", "e">>
      [] word = "done" -> <<"d", "o", "n", "e">>
      [] word = "stop" -> <<"s", "t", "o", "p">>
      [] word = "fail" -> <<"f", "a", "i", "l">>
      [] word = "wait" -> <<"w", "a", "i", "t">>
      [] word = "hover" -> <<"h", "o", "v", "e", "r">>
      [] OTHER -> <<>>
DefaultThought == <<"Ich bin unsicher und warte kurz.">>

\* a field of the parsed reply: absent (undefined, null, not a string) or text
Absent == [kind |-> "absent", text |-> <<>>]
Text(t) == [kind |-> "string", text |-> t]

\* normalizeDecision(raw): value / inputValue are passed through and left out
NormalizeDecision(raw) ==
    LET rawAction == Trim(ToLowerCase(IF raw.action.kind = "string"
                                      THEN raw.action.text ELSE <<>>))
        mappedAction ==
            IF rawAction = Chars("click") THEN "click"
            ELSE IF rawAction = Chars("scroll") THEN "scroll"
            ELSE IF rawAction = Chars("type") THEN "type"
            ELSE IF rawAction = Chars("done") THEN "done"
            ELSE IF rawAction = Chars("stop") THEN "stop"
            ELSE IF rawAction = Chars("fail") THEN "done"
            ELSE "wait"
        thought == IF raw.thought.kind = "string" /\ Len(Trim(raw.thought.text)) > 0
                   THEN Trim(raw.thought.text) ELSE DefaultThought
        targetId == IF raw.targetId.kind = "string" /\ Trim(raw.targetId.text) # <<>>
                    THEN Text(Trim(raw.targetId.text)) ELSE Absent
    IN  [thought |-> thought, action |-> mappedAction, targetId |-> targetId]

\* replies to normalise: an action word in some letter case, with spaces
\* around it, or no action at all; `word` records what the text was built from
RawWords == {"click", "scroll", "type", "done", "stop", "fail", "wait", "hover", ""}
ToUpperChar(ch) ==
    IF \E i \in DOMAIN LowerLetters : LowerLetters[i] = ch
    THEN UpperLetters[CHOOSE i \in DOMAIN LowerLetters : LowerLetters[i] = ch]
    ELSE ch
Cased(text, casing) ==
    [i \in DOMAIN text |->
        IF casing = "upper" \/ (casing = "capital" /\ i = 1)
        THEN ToUpperChar(text[i]) ELSE text[i]]
Padded(text, pad) ==
    (IF pad \in {"left", "both"} THEN <<" ">> ELSE <<>>) \o text
    \o (IF pad \in {"right", "both"} THEN <<"\t", " ">> ELSE <<>>)
RawActions ==
    {[word |-> w, field |-> Text(Padded(Cased(Chars(w), c), p))] :
        w \in RawWords, c \in {"lower", "upper", "capital"},
        p \in {"none", "left", "right", "both"}}
    \cup {[word |-> "", field |-> Absent]}
RawThoughts == {Absent, Text(<<>>), Text(<<" ", "\n">>), Text(<<" ", "o", "k", " ">>)}
RawTargetIds == {Absent, Text(<<" ">>), Text(<<" ", "7">>)}
RawDecisions ==
    {[word |-> a.word, action |-> a.field, thought |-> t, targetId |-> g] :
        a \in RawActions, t \in RawThoughts, g \in RawTargetIds}

InitNormalize ==
    /\ InitAgent /\ limits = NoLimits /\ files = NoFiles
    /\ call \in {[fn |-> "normalizeDecision", arg |-> raw, out |-> <<>>, done |-> FALSE] :
                    raw \in RawDecisions}

ApplyNormalizeDecision ==
    /\ call.fn = "normalizeDecision" /\ ~call.done
    /\ call' = [call EXCEPT !.out = NormalizeDecision(call.arg), !.done = TRUE]
    /\ UNCHANGED <<agentVars, procVars, liveBrowsers, livePages, timers, ttsSeq, used,
                   limits, files, outVars>>

SpecNormalize == InitNormalize /\ [][ApplyNormalizeDecision]_vars

\* C12: normalizeDecision returns an action in {click, scroll, type, wait,
\* done}: click, scroll, type and done map to themselves, stop and fail map to
\* done, anything else and a missing action map to wait; the thought is a
\* non-empty string.
C12_ActionNormalised ==
    (call.fn = "normalizeDecision" /\ call.done)
    => /\ call.out.action \in {"click", "scroll", "type", "wait", "done"}
       /\ call.out.action =
             (IF call.arg.word \in {"click", "scroll", "type", "done"} THEN call.arg.word
              ELSE IF call.arg.word \in {"stop", "fail"} THEN "done" ELSE "wait")
       /\ Len(call.out.thought) > 0

\* ------------------------------------------------- GeminiProvider.generate
MaxRetries == 3
BackoffStepMs == 1200
RateLimitStatus == 429
UnavailableStatus == 503
\* error?.status of an error that carries none (a parse error, a network error)
NoStatus == 0

\* a generate() that also retries after an internal server error
IsRetriableWide(st) == st \in {RateLimitStatus, UnavailableStatus, 500}
\* a generate() that reports every retriable failure as a rate limit
IsRateLimitedWide(st) == st \in {RateLimitStatus, UnavailableStatus}

IsRateLimited(st) == st = RateLimitStatus
IsRetriable(st) == IsRateLimited(st) \/ st = UnavailableStatus

\* what model.generateContent and parseModelJson come to, for one attempt
PlainRaw(w) == [word |-> w, action |-> Text(Chars(w)),
                thought |-> Text(<<"o", "k">>), targetId |-> Text(<<"7">>)]
Outcomes ==
    {[kind |-> "json", code |-> NoStatus, raw |-> PlainRaw(w)] : w \in RawWords}
    \cup {[kind |-> "no-json", code |-> NoStatus, raw |-> PlainRaw("")]}
    \cup {[kind |-> "error", code |-> st, raw |-> PlainRaw("")] :
             st \in {RateLimitStatus, UnavailableStatus, 500, 400, 401, 403, NoStatus}}

RateLimitThought == <<"Rate-Limit bei Gemini erreicht.">>
ErrorThought == <<"Error interacting with AI.">>
WaitWith(thought) == [thought |-> thought, action |-> "wait", targetId |-> Absent]

\* generate() suspended in its first model.generateContent
NewGenerate == [pc |-> "calling", attempt |-> 0, calls |-> 1, failed |-> <<>>,
                slept |-> <<>>, last |-> "none", result |-> WaitWith(<<>>)]

InitGenerate ==
    /\ InitAgent /\ limits = NoLimits /\ files = NoFiles
    /\ call = [fn |-> "generate", arg |-> <<>>, out |-> NewGenerate, done |-> FALSE]

PureFrame ==
    UNCHANGED <<agentVars, procVars, liveBrowsers, livePages, timers, ttsSeq, used,
                limits, files, outVars>>

\* the attempt in flight has ended with outcome o: return, or sleep and go on
GenerateAttemptDone(o) ==
    /\ call.fn = "generate" /\ call.out.pc = "calling"
    /\ LET g == call.out
           returned(d) == [call EXCEPT !.out = [g EXCEPT !.pc = "returned",
                                                         !.last = o.kind,
                                                         !.failed = IF o.kind = "json" THEN @
                                                                    ELSE Append(@, o.code),
                                                         !.result = d],
                                       !.done = TRUE]
       IN  call' =
             IF o.kind = "json" THEN returned(NormalizeDecision(o.raw))
             ELSE IF IsRetriable(o.code) /\ g.attempt < MaxRetries - 1
             THEN [call EXCEPT !.out = [g EXCEPT !.pc = "sleeping",
                                                 !.last = o.kind,
                                                 !.failed = Append(@, o.code),
                                                 !.slept = Append(@, BackoffStepMs * (g.attempt + 1))]]
             ELSE IF IsRateLimited(o.code) THEN returned(WaitWith(RateLimitThought))
             ELSE returned(WaitWith(ErrorThought))
    /\ PureFrame

\* sleep(backoffMs) is over: continue with the next attempt
GenerateBackoffDone ==
    /\ call.fn = "generate" /\ call.out.pc = "sleeping"
    /\ call' = [call EXCEPT !.out = [@ EXCEPT !.pc = "calling", !.attempt = @ + 1,
                                              !.calls = @ + 1]]
    /\ PureFrame

NextGenerate ==
    \/ \E o \in Outcomes : GenerateAttemptDone(o)
    \/ GenerateBackoffDone

SpecGenerate == InitGenerate /\ [][NextGenerate]_vars

\* C13: at most three calls of the model for one decision; every call after
\* the first follows a call that failed with 429 or 503 and a backoff of 1.2 s
\* times the number of that failed attempt; any other failure, an unparseable
\* reply included, ends the decision with that call.
C13_BoundedRetries ==
    /\ [](call.fn = "generate"
           => LET g == call.out IN
              /\ g.calls <= 3
              /\ Len(g.slept) = g.calls - 1 + (IF g.pc = "sleeping" THEN 1 ELSE 0)
              /\ \A i \in DOMAIN g.slept : g.slept[i] = 1200 * i /\ g.failed[i] \in {429, 503})
    /\ [][\A o \in Outcomes :
             (GenerateAttemptDone(o) /\ o.kind # "json" /\ o.code \notin {429, 503})
             => call'.out.pc = "returned" /\ call'.out.calls = call.out.calls]_vars

\* C13 happens: the third call was made after backoffs of 1.2 s and 2.4 s.
C13_Witness ==
    /\ call.fn = "generate" /\ call.out.pc = "returned"
    /\ call.out.calls = 3 /\ call.out.slept = <<1200, 2400>>

\* C14: generate always returns: when its last attempt fails, the result is
\* a wait without target, with the rate-limit thought exactly when that last
\* failure was a 429, and the generic error thought otherwise.
C14_DegradesToWait ==
    /\ [](call.fn = "generate" /\ call.out.pc = "returned" /\ call.out.last # "json"
           => LET g == call.out IN
              /\ g.result.action = "wait" /\ g.result.targetId = Absent
              /\ g.result.thought = (IF g.failed[Len(g.failed)] = 429
                                     THEN RateLimitThought ELSE ErrorThought))
    /\ [](call.fn = "generate" /\ call.out.pc # "returned" => ENABLED NextGenerate)

\* C14 happens: a 503 persisted through all three attempts.
C14_Witness ==
    /\ call.fn = "generate" /\ call.out.pc = "returned"
    /\ call.out.failed = <<503, 503, 503>> /\ call.out.result = WaitWith(ErrorThought)

\* ------------------------------------------------- buildLoopGuardHint
MaxHintLen == 9
HintWindow == 8
HintMinSteps == 6
HintMinCount == 2

GuardKey(step) == <<step.action, step.targetId>>
\* TRUE when the anti-loop text is returned, FALSE when '' is
BuildLoopGuardHint(hist) ==
    LET recent == LastN(hist, HintWindow)
        pairCounts == [k \in {GuardKey(recent[i]) : i \in DOMAIN recent} |->
                          Cardinality({i \in DOMAIN recent : GuardKey(recent[i]) = k})]
        repeated == {k \in DOMAIN pairCounts : pairCounts[k] >= HintMinCount}
    IN  IF Len(recent) < HintMinSteps THEN FALSE ELSE repeated # {}

\* histories up to renaming of the targets: a step clicks a target seen before
\* or the next unseen one
NextTargets(hist) == 1..(Cardinality({hist[i].targetId : i \in DOMAIN hist}) + 1)

InitHint ==
    /\ InitAgent /\ limits = NoLimits /\ files = NoFiles
    /\ call = [fn |-> "buildLoopGuardHint", arg |-> <<>>, out |-> FALSE, done |-> FALSE]

\* the loop records one more step before the next prompt is built
HintHistoryPush(t) ==
    /\ call.fn = "buildLoopGuardHint" /\ Len(call.arg) < MaxHintLen
    /\ t \in NextTargets(call.arg)
    /\ call' = [call EXCEPT !.arg = Append(@, Decision("click", t)), !.done = FALSE]
    /\ PureFrame

ApplyBuildLoopGuardHint ==
    /\ call.fn = "buildLoopGuardHint" /\ ~call.done
    /\ call' = [call EXCEPT !.out = BuildLoopGuardHint(call.arg), !.done = TRUE]
    /\ PureFrame

NextHint ==
    \/ \E t \in 1..MaxHintLen : HintHistoryPush(t)
    \/ ApplyBuildLoopGuardHint

SpecHint == InitHint /\ [][NextHint]_vars

\* C15: the anti-loop hint is in the step prompt exactly when some
\* (action, targetId) pair occurs at least twice among the last eight history
\* entries, whatever the length of the history.
C15_HintIffRepeated ==
    (call.fn = "buildLoopGuardHint" /\ call.done)
    => LET h == call.arg
           from == IF Len(h) > 8 THEN Len(h) - 7 ELSE 1
       IN  call.out <=> \E i, j \in from..Len(h) : i < j /\ h[i] = h[j]

\* ------------------------------------------------- artifacts of one run
SaveOptions == {[tts |-> FALSE, trace |-> TRUE, thoughts |-> TRUE, shots |-> TRUE]}

\* one run with every save option on, stopped by the operator or by itself
InitFiles ==
    /\ InitAgent
    /\ limits = [starts |-> MaxStarts, stops |-> MaxStops, turns |-> MaxTurns,
                 faults |-> 0, odd |-> MaxOdd, options |-> SaveOptions,
                 observe |-> FALSE, tabs |-> FALSE]
    /\ call = NoCall /\ files = NoFiles

NextFiles ==
    \/ \E o \in limits.options : StartAccepted(o)
    \/ \E n \in StartIds : StartLaunched(n)
    \/ \E n \in StartIds : StartContext(n)
    \/ \E n \in StartIds : StartGoto(n)
    \/ \E n \in StartIds : StartHydrate(n)
    \/ \E l \in StartIds : LoopCookie(l)
    \/ \E l \in StartIds : LoopSom(l)
    \/ \E l \in StartIds : LoopShot(l)
    \/ \E l \in StartIds, d \in {Usual} \cup OddDecisions : LoopDecide(l, d)
    \/ \E l \in StartIds : LoopAct(l)
    \/ \E l \in StartIds : LoopSettle(l)
    \/ StopRequest
    \/ StopPrefix
    \/ \E r \in TeardownRecords : StopTraceWritten(r)
    \/ \E r \in TeardownRecords : StopThoughtsWritten(r)
    \/ \E r \in TeardownRecords : StopReportWritten(r)
    \/ \E r \in TeardownRecords : StopContextClosed(r)
    \/ \E r \in TeardownRecords : StopBrowserClosed(r)

SpecFiles == InitFiles /\ [][NextFiles]_vars

\* C16: with save-trace, save-thoughts and save-screenshots on, when the run
\* reaches its final status stopped, every thought, step, error and trace
\* step emitted so far is in the files of the run: thoughts.json and
\* report.json hold every thought, report.json every step and error, the
\* trace JSON every trace step.
C16_ArtifactsComplete ==
    [][(/\ status # "stopped" /\ status' = "stopped"
        /\ isSaveTraceEnabled /\ isSaveThoughtsEnabled /\ isSaveScreenshotsEnabled
        /\ currentRunDir)
       => /\ files'.thoughtsJson = thoughtLog'
          /\ files'.report = [thoughts |-> thoughtLog', steps |-> stepLog',
                              errors |-> errorLog']
          /\ traceSteps' # <<>> => files'.traceJson = Len(traceSteps')]_vars

\* ------------------------------------------------- buildTraceSpec
MaxTraceSteps == 2
DefaultDeltaY == 520
DefaultWaitMs == 2000

\* value.replace(/ch/g, repl)
RECURSIVE ReplaceAll(_, _, _)
ReplaceAll(text, ch, repl) ==
    IF text = <<>> THEN <<>>
    ELSE (IF Head(text) = ch THEN repl ELSE <<Head(text)>>) \o ReplaceAll(Tail(text), ch, repl)

EscapeTsString(value) ==
    ReplaceAll(ReplaceAll(ReplaceAll(ReplaceAll(value, "\\", <<"\\", "\\">>),
                                     "'", <<"\\", "'">>),
                          "\r", <<"\\", "r">>),
               "\n", <<"\\", "n">>)

\* a number field of a trace step that is not set
NoNumber == 0 - 1
TraceStep(action, selector, value, x, y, deltaY, waitMs, url) ==
    [action |-> action, selector |-> selector, value |-> value, x |-> x, y |-> y,
     deltaY |-> deltaY, waitMs |-> waitMs, url |-> url]

\* a statement of the generated script; text arguments are the characters
\* between the quotes of the string literal
Statement(op, a, b, m, n) == [op |-> op, a |-> a, b |-> b, m |-> m, n |-> n]

\* the statements buildTraceSpec writes for one step (the // note left out)
StepStatements(step, startUrl) ==
    IF step.action = "goto"
    THEN <<Statement("goto", EscapeTsString(IF step.url # <<>> THEN step.url ELSE startUrl),
                     <<>>, NoNumber, NoNumber)>>
    ELSE IF step.action = "click"
    THEN IF step.selector # Absent
         THEN <<Statement("locator.click", EscapeTsString(step.selector.text), <<>>,
                          NoNumber, NoNumber)>>
         ELSE IF step.x # NoNumber /\ step.y # NoNumber
         THEN <<Statement("mouse.click", <<>>, <<>>, step.x, step.y)>>
         ELSE <<>>
    ELSE IF step.action = "type"
    THEN IF step.selector # Absent
         THEN <<Statement("field.fill+type", EscapeTsString(step.selector.text),
                          EscapeTsString(step.value), NoNumber, NoNumber)>>
         ELSE IF step.value # <<>>
         THEN <<Statement("keyboard.type", <<>>, EscapeTsString(step.value),
                          NoNumber, NoNumber)>>
         ELSE <<>>
    ELSE IF step.action = "scroll"
    THEN <<Statement("mouse.wheel", <<>>, <<>>, 0,
                     IF step.deltaY # NoNumber THEN step.deltaY ELSE DefaultDeltaY)>>
    ELSE IF step.action = "wait"
    THEN <<Statement("waitForTimeout", <<>>, <<>>,
                     IF step.waitMs # NoNumber THEN Max0(step.waitMs) ELSE DefaultWaitMs,
                     NoNumber)>>
    ELSE IF step.action = "tab-switch"
    THEN <<Statement("bringToFront", <<>>, <<>>, NoNumber, NoNumber)>>
    ELSE <<>>

RECURSIVE StepsStatements(_, _)
StepsStatements(steps, startUrl) ==
    IF steps = <<>> THEN <<>>
    ELSE StepStatements(Head(steps), startUrl) \o StepsStatements(Tail(steps), startUrl)

\* buildTraceSpec(trace): the statements of the test body, in order
BuildTraceSpec(trace) ==
    <<Statement("goto", EscapeTsString(trace.startUrl), <<>>, NoNumber, NoNumber)>>
    \o StepsStatements(trace.steps, trace.startUrl)

\* texts with the characters escapeTsString rewrites
TraceTexts == {<<"a">>, <<"a", "'", "b">>, <<"\\", "n">>, <<"a", "\n">>}
\* what executeAction, handleCookieBanner and switchToPage record
RecordedSteps ==
    {TraceStep("click", Text(t), <<>>, 3, 4, NoNumber, NoNumber, <<"u">>) : t \in TraceTexts}
    \cup {TraceStep("click", Absent, <<>>, 3, 4, NoNumber, NoNumber, <<"u">>)}
    \cup {TraceStep("type", Text(<<"s">>), t, NoNumber, NoNumber, NoNumber, NoNumber, <<"u">>) :
             t \in TraceTexts}
    \cup {TraceStep("type", Absent, <<"a">>, NoNumber, NoNumber, NoNumber, NoNumber, <<"u">>)}
    \cup {TraceStep("scroll", Absent, <<>>, NoNumber, NoNumber, 320, NoNumber, <<"u">>),
          TraceStep("wait", Absent, <<>>, NoNumber, NoNumber, NoNumber, 2000, <<"u">>),
          TraceStep("tab-switch", Absent, <<>>, NoNumber, NoNumber, NoNumber, NoNumber, <<"v">>)}
\* start() records the initial navigation first
InitialGoto == TraceStep("goto", Absent, <<>>, NoNumber, NoNumber, NoNumber, NoNumber, <<"u">>)
RECURSIVE StepSeqs(_)
StepSeqs(n) ==
    IF n = 0 THEN {<<>>}
    ELSE StepSeqs(n - 1)
         \cup {Append(q, st) : q \in {q \in StepSeqs(n - 1) : Len(q) = n - 1},
                               st \in RecordedSteps}
Traces == {[startUrl |-> <<"u">>, steps |-> <<InitialGoto>> \o q] : q \in StepSeqs(MaxTraceSteps)}

InitTrace ==
    /\ InitAgent /\ limits = NoLimits /\ files = NoFiles
    /\ call \in {[fn |-> "buildTraceSpec", arg |-> tr, out |-> <<>>, done |-> FALSE] :
                    tr \in Traces}

ApplyBuildTraceSpec ==
    /\ call.fn = "buildTraceSpec" /\ ~call.done
    /\ call' = [call EXCEPT !.out = BuildTraceSpec(call.arg), !.done = TRUE]
    /\ PureFrame

SpecTrace == InitTrace /\ [][ApplyBuildTraceSpec]_vars

\* the value of a single-quoted string literal of the script
RECURSIVE LiteralValue(_)
LiteralValue(chars) ==
    IF chars = <<>> THEN <<>>
    ELSE IF Head(chars) = "\\" /\ Len(chars) >= 2
    THEN <<CASE chars[2] = "n" -> "\n" [] chars[2] = "r" -> "\r" [] OTHER -> chars[2]>>
         \o LiteralValue(SubSeq(chars, 3, Len(chars)))
    ELSE <<Head(chars)>> \o LiteralValue(Tail(chars))

\* the driver operation a statement of the script performs on the test double
Performed(st) ==
    CASE st.op = "goto" -> [op |-> "goto", text |-> LiteralValue(st.a), value |-> <<>>,
                            m |-> NoNumber, n |-> NoNumber]
      [] st.op = "locator.click" -> [op |-> "click", text |-> LiteralValue(st.a),
                                     value |-> <<>>, m |-> NoNumber, n |-> NoNumber]
      [] st.op = "mouse.click" -> [op |-> "click", text |-> <<>>, value |-> <<>>,
                                   m |-> st.m, n |-> st.n]
      [] st.op = "field.fill+type" -> [op |-> "fill+type", text |-> LiteralValue(st.a),
                                       value |-> LiteralValue(st.b),
                                       m |-> NoNumber, n |-> NoNumber]
      [] st.op = "keyboard.type" -> [op |-> "type", text |-> <<>>,
                                     value |-> LiteralValue(st.b),
                                     m |-> NoNumber, n |-> NoNumber]
      [] st.op = "mouse.wheel" -> [op |-> "wheel", text |-> <<>>, value |-> <<>>,
                                   m |-> st.m, n |-> st.n]
      [] st.op = "waitForTimeout" -> [op |-> "wait", text |-> <<>>, value |-> <<>>,
                                      m |-> st.m, n |-> NoNumber]
      [] OTHER -> [op |-> "tab-switch", text |-> <<>>, value |-> <<>>,
                   m |-> NoNumber, n |-> NoNumber]

\* the driver operation a trace step records
Recorded(step) ==
    CASE step.action = "goto" -> [op |-> "goto", text |-> step.url, value |-> <<>>,
                                  m |-> NoNumber, n |-> NoNumber]
      [] step.action = "click" /\ step.selector # Absent ->
            [op |-> "click", text |-> step.selector.text, value |-> <<>>,
             m |-> NoNumber, n |-> NoNumber]
      [] step.action = "click" /\ step.selector = Absent ->
            [op |-> "click", text |-> <<>>, value |-> <<>>, m |-> step.x, n |-> step.y]
      [] step.action = "type" /\ step.selector # Absent ->
            [op |-> "fill+type", text |-> step.selector.text, value |-> step.value,
             m |-> NoNumber, n |-> NoNumber]
      [] step.action = "type" /\ step.selector = Absent ->
            [op |-> "type", text |-> <<>>, value |-> step.value,
             m |-> NoNumber, n |-> NoNumber]
      [] step.action = "scroll" -> [op |-> "wheel", text |-> <<>>, value |-> <<>>,
                                    m |-> 0, n |-> step.deltaY]
      [] step.action = "wait" -> [op |-> "wait", text |-> <<>>, value |-> <<>>,
                                  m |-> step.waitMs, n |-> NoNumber]
      [] OTHER -> [op |-> "tab-switch", text |-> <<>>, value |-> <<>>,
                   m |-> NoNumber, n |-> NoNumber]

\* C17: replaying the script of buildTraceSpec performs exactly the recorded
\* trace steps, in order: one driver operation per trace step, with the same
\* selector, coordinates, value, delta or wait time, and nothing else.
C17_ReplayIsTheTrace ==
    (call.fn = "buildTraceSpec" /\ call.done)
    => /\ Len(call.out) = Len(call.arg.steps)
       /\ \A i \in DOMAIN call.out :
             i \in DOMAIN call.arg.steps
             /\ Performed(call.out[i]) = Recorded(call.arg.steps[i])

\* ------------------------------------------------- csvEscape
MaxFieldLen == 2
MaxFields == 2

\* /[",\n]/.test(raw)
NeedsQuotes(raw) == \E i \in DOMAIN raw : raw[i] \in {"\"", ",", "\n"}
CsvEscape(raw) ==
    IF ~NeedsQuotes(raw) THEN raw
    ELSE <<"\"">> \o ReplaceAll(raw, "\"", <<"\"", "\"">>) \o <<"\"">>

\* row.map((value) => this.csvEscape(value)).join(',')
RECURSIVE JoinFields(_)
JoinFields(row) ==
    IF row = <<>> THEN <<>>
    ELSE IF Len(row) = 1 THEN CsvEscape(row[1])
    ELSE CsvEscape(Head(row)) \o <<",">> \o JoinFields(Tail(row))

\* field texts: ordinary characters, commas, quotes, carriage returns, newlines
FieldChars == {"a", ",", "\"", "\r", "\n"}
RECURSIVE FieldTexts(_)
FieldTexts(n) ==
    IF n = 0 THEN {<<>>}
    ELSE FieldTexts(n - 1)
         \cup {Append(t, ch) : t \in {t \in FieldTexts(n - 1) : Len(t) = n - 1},
                               ch \in FieldChars}
RECURSIVE CsvRows(_)
CsvRows(n) ==
    IF n = 1 THEN {<<t>> : t \in FieldTexts(MaxFieldLen)}
    ELSE CsvRows(n - 1)
         \cup {Append(row, t) : row \in {row \in CsvRows(n - 1) : Len(row) = n - 1},
                                t \in FieldTexts(MaxFieldLen)}

InitCsv ==
    /\ InitAgent /\ limits = NoLimits /\ files = NoFiles
    /\ call \in {[fn |-> "csvEscape", arg |-> row, out |-> <<>>, done |-> FALSE] :
                    row \in CsvRows(MaxFields)}

ApplyCsvEscape ==
    /\ call.fn = "csvEscape" /\ ~call.done
    /\ call' = [call EXCEPT !.out = JoinFields(call.arg), !.done = TRUE]
    /\ PureFrame

SpecCsv == InitCsv /\ [][ApplyCsvEscape]_vars

\* RFC 4180, one record: fields are separated by commas; a field is either
\* enclosed in double quotes, with "" for a quote, or holds no comma, quote,
\* CR or LF.  Anything else is not one record.
NotOneRecord == <<<<"not one record">>>>
RECURSIVE ParseRecord(_, _, _, _)
ParseRecord(rest, mode, cur, fields) ==
    IF rest = <<>>
    THEN IF mode = "quoted" THEN NotOneRecord ELSE Append(fields, cur)
    ELSE LET ch == Head(rest)
             more == Tail(rest)
         IN  CASE mode = "start" ->
                    IF ch = "\"" THEN ParseRecord(more, "quoted", <<>>, fields)
                    ELSE IF ch = "," THEN ParseRecord(more, "start", <<>>, Append(fields, <<>>))
                    ELSE IF ch \in {"\r", "\n"} THEN NotOneRecord
                    ELSE ParseRecord(more, "plain", <<ch>>, fields)
               [] mode = "plain" ->
                    IF ch = "," THEN ParseRecord(more, "start", <<>>, Append(fields, cur))
                    ELSE IF ch \in {"\"", "\r", "\n"} THEN NotOneRecord
                    ELSE ParseRecord(more, "plain", Append(cur, ch), fields)
               [] mode = "quoted" ->
                    IF ch = "\"" THEN ParseRecord(more, "closed", cur, fields)
                    ELSE ParseRecord(more, "quoted", Append(cur, ch), fields)
               [] OTHER ->
                    IF ch = "\"" THEN ParseRecord(more, "quoted", Append(cur, ch), fields)
                    ELSE IF ch = "," THEN ParseRecord(more, "start", <<>>, Append(fields, cur))
                    ELSE NotOneRecord

\* C18: a row of csvEscape'd fields joined by commas parses, by RFC 4180,
\* back into the same number of fields holding the original texts.
C18_CsvRoundTrip ==
    (call.fn = "csvEscape" /\ call.done)
    => LET parsed == ParseRecord(call.out, "start", <<>>, <<>>)
       IN  Len(parsed) = Len(call.arg) /\ parsed = call.arg

\* ------------------------------------------------- injectSoM: ids
MaxElements == 4
\* the elements of the page; the upper half lives in open shadow trees
Elements == 1..MaxElements
ShadowElements == {el \in Elements : 2 * el > MaxElements}
\* no data-som-id attribute
NoId == 0 - 1

\* document.querySelectorAll('[data-som-id]'): the matches in the document
\* tree; elements of shadow trees are not among them
QuerySomIds(attrs) == {el \in Elements \ ShadowElements : attrs[el] # NoId}
RemoveOldIds(attrs) == [el \in Elements |-> IF el \in QuerySomIds(attrs) THEN NoId ELSE attrs[el]]
\* interactables.forEach: setAttribute('data-som-id', idCounter); idCounter++
AssignIds(attrs, interactables) ==
    [el \in Elements |->
        IF \E i \in DOMAIN interactables : interactables[i] = el
        THEN (CHOOSE i \in DOMAIN interactables : interactables[i] = el) - 1
        ELSE attrs[el]]
\* the accepted candidates of one injection, in acceptance order: traverse()
\* reaches every element, those of shadow trees included, once
RECURSIVE Accepted(_)
Accepted(n) ==
    IF n = 0 THEN {<<>>}
    ELSE Accepted(n - 1)
         \cup {Append(q, el) : q \in {q \in Accepted(n - 1) : Len(q) = n - 1},
                               el \in Elements}
Interactables == {q \in Accepted(MaxElements) :
                    \A i, j \in DOMAIN q : i # j => q[i] # q[j]}

InitSom ==
    /\ InitAgent /\ limits = NoLimits /\ files = NoFiles
    /\ call = [fn |-> "injectSoM", arg |-> [el \in Elements |-> NoId],
               out |-> [count |-> 0, ids |-> <<>>], done |-> FALSE]

\* injectSoM(page) on the page as the last injection left it; call.arg is the
\* data-som-id attribute of every element
InjectSoM(interactables) ==
    /\ call.fn = "injectSoM"
    /\ LET attrs == AssignIds(RemoveOldIds(call.arg), interactables)
       IN  call' = [call EXCEPT !.arg = attrs,
                                !.out = [count |-> Len(interactables),
                                         ids |-> [i \in DOMAIN interactables |->
                                                     attrs[interactables[i]]]],
                                !.done = TRUE]
    /\ PureFrame

NextSom == \E q \in Interactables : InjectSoM(q)
SpecSom == InitSom /\ [][NextSom]_vars

\* C19: after an injection the ids of the returned elements are 0, 1, ...,
\* count-1 in acceptance order, and the data-som-id attributes present in the
\* page are exactly these ids, each on one element: none is left from an
\* earlier injection.
C19_IdsAreThePageIds ==
    (call.fn = "injectSoM" /\ call.done)
    => /\ call.out.ids = [i \in 1..call.out.count |-> i - 1]
       /\ \A k \in 0..(call.out.count - 1) :
             Cardinality({el \in Elements : call.arg[el] = k}) = 1
       /\ \A el \in Elements : call.arg[el] # NoId => call.arg[el] \in 0..(call.out.count - 1)

\* ------------------------------------------------- injectSoM: overlap
MaxCandidates == 2
MaxSide == 2
\* getBoundingClientRect gives fractions of a pixel: lengths are counted in
\* 1/SubPixels px, areas in 1/SubPixels^2 px^2
SubPixels == 2
MaxMarks == 220
DuplicatePercent == 92

Min2(a, b) == IF a < b THEN a ELSE b
Max2(a, b) == IF a > b THEN a ELSE b
RectData(left, top, width, height) ==
    [left |-> left, top |-> top, right |-> left + width, bottom |-> top + height,
     width |-> width, height |-> height, area |-> width * height]
OverlapArea(a, b) ==
    Max2(0, Min2(a.right, b.right) - Max2(a.left, b.left))
    * Max2(0, Min2(a.bottom, b.bottom) - Max2(a.top, b.top))
\* minArea of overlapRatio: Math.max(1, ...) is one square pixel
MinArea(a, b) == Max2(SubPixels * SubPixels, Min2(a.area, b.area))
\* overlapRatio(a, b) > 0.92
IsDuplicate(a, b) == OverlapArea(a, b) * 100 > DuplicatePercent * MinArea(a, b)

\* candidates.sort: score descending, then area descending; stable.  The
\* place of a candidate is one more than the number of candidates the
\* comparator puts before it, those met earlier among its equals included.
Before(a, b) == a.score > b.score \/ (a.score = b.score /\ a.rect.area > b.rect.area)
PlaceOf(cands, i) ==
    1 + Cardinality({j \in DOMAIN cands : \/ Before(cands[j], cands[i])
                                          \/ (~Before(cands[i], cands[j]) /\ j < i)})
SortCandidates(cands) ==
    LET n == Len(cands)
        place == SubSeq([i \in 1..n |-> PlaceOf(cands, i)], 1, n)
    IN  SubSeq([k \in 1..n |-> cands[CHOOSE i \in 1..n : place[i] = k]], 1, n)

\* one candidate of the loop: pushed unless it duplicates a mark
KeepIfUnique(candidate, interactables) ==
    IF \E i \in DOMAIN interactables : IsDuplicate(candidate.rect, interactables[i].rect)
    THEN interactables ELSE Append(interactables, candidate)

\* a loop that breaks one mark too late
RECURSIVE KeepUniqueLate(_, _)
KeepUniqueLate(sorted, interactables) ==
    IF sorted = <<>> \/ Len(interactables) > MaxMarks THEN interactables
    ELSE IF Len(sorted) = 1 THEN KeepIfUnique(sorted[1], interactables)
    ELSE LET half == Len(sorted) \div 2
         IN  KeepUniqueLate(SubSeq(sorted, half + 1, Len(sorted)),
                            KeepUniqueLate(SubSeq(sorted, 1, half), interactables))

\* the loop over the sorted candidates, first half then second half; once
\* MAX_MARKS is reached nothing more is pushed (break)
RECURSIVE KeepUnique(_, _)
KeepUnique(sorted, interactables) ==
    IF sorted = <<>> \/ Len(interactables) >= MaxMarks THEN interactables
    ELSE IF Len(sorted) = 1 THEN KeepIfUnique(sorted[1], interactables)
    ELSE LET half == Len(sorted) \div 2
         IN  KeepUnique(SubSeq(sorted, half + 1, Len(sorted)),
                        KeepUnique(SubSeq(sorted, 1, half), interactables))
AcceptMarks(cands) == KeepUnique(SortCandidates(cands), <<>>)

\* visible candidates: native controls (score 4) of any size above 0, and
\* elements of any score that are at least 18 px wide and high
NativeScore == 4
MinSidePx == 18
SmallRects ==
    {RectData(l, t, w, h) : l \in {0, 1}, t \in {0, 1}, w \in 1..MaxSide, h \in 1..MaxSide}
Candidates ==
    {[rect |-> rc, score |-> NativeScore] : rc \in SmallRects}
    \cup {[rect |-> RectData(0, 0, MinSidePx * SubPixels, MinSidePx * SubPixels + h),
           score |-> sc] : h \in {0, 1}, sc \in 1..NativeScore}
RECURSIVE CandidateSeqs(_)
CandidateSeqs(n) ==
    IF n = 0 THEN {<<>>}
    ELSE CandidateSeqs(n - 1)
         \cup {Append(q, c) : q \in {q \in CandidateSeqs(n - 1) : Len(q) = n - 1},
                              c \in Candidates}

InitMarks ==
    /\ InitAgent /\ limits = NoLimits /\ files = NoFiles
    /\ call \in {[fn |-> "acceptMarks", arg |-> q, out |-> <<>>, done |-> FALSE] :
                    q \in CandidateSeqs(MaxCandidates)}

ApplyAcceptMarks ==
    /\ call.fn = "acceptMarks" /\ ~call.done
    /\ call' = [call EXCEPT !.out = AcceptMarks(call.arg), !.done = TRUE]
    /\ PureFrame

SpecMarks == InitMarks /\ [][ApplyAcceptMarks]_vars

\* C20: no two accepted marks of one observation have rectangles whose
\* intersection area exceeds 0.92 times the area of the smaller rectangle.
C20_NoHeavyOverlap ==
    (call.fn = "acceptMarks" /\ call.done)
    => \A i, j \in DOMAIN call.out :
          i # j =>
             LET a == call.out[i].rect
                 b == call.out[j].rect
                 smaller == IF a.area < b.area THEN a.area ELSE b.area
             IN  ~(OverlapArea(a, b) * 100 > 92 * smaller)

\* ------------------------------------------------- injectSoM: ancestors
ChainLen == 10
MaxAncestorDepth == 8
StrongScore == 2

\* a hasStrongInteractiveAncestor that looks one level less far
HasStrongAncestorNear(dom, el) ==
    \E k \in 1..(MaxAncestorDepth - 1) : el - k >= dom.top /\ dom.score[el - k] >= StrongScore

\* The document is a chain of nested elements 1..ChainLen, element el - 1 being the
\* parentElement of el; element dom.top has no parentElement (a child of
\* body, or the top of a shadow tree).
\* hasStrongInteractiveAncestor(el): the parentElement chain, depth < 8
HasStrongInteractiveAncestor(dom, el) ==
    \E k \in 1..MaxAncestorDepth : el - k >= dom.top /\ dom.score[el - k] >= StrongScore

\* isInteractable(el) of a visible element of sufficient size
IsInteractable(dom, el) ==
    /\ dom.score[el] > 0
    /\ ~(dom.score[el] <= StrongScore /\ HasStrongInteractiveAncestor(dom, el))

\* pages: at most MaxScored elements with a score above 0
ScoredPages ==
    {[score |-> [el \in 1..ChainLen |-> IF el = a THEN sa ELSE IF el = b THEN sb ELSE 0],
      top |-> t] :
        a \in 1..ChainLen, b \in 1..ChainLen, sa \in 0..NativeScore, sb \in 0..NativeScore,
        t \in {1, 2}}

InitAncestors ==
    /\ InitAgent /\ limits = NoLimits /\ files = NoFiles
    /\ call \in {[fn |-> "isInteractable", arg |-> pg, out |-> {}, done |-> FALSE] :
                    pg \in ScoredPages}

\* traverse(): the candidates of the page
ApplyIsInteractable ==
    /\ call.fn = "isInteractable" /\ ~call.done
    /\ call' = [call EXCEPT !.out = {el \in 1..ChainLen : IsInteractable(call.arg, el)},
                            !.done = TRUE]
    /\ PureFrame

SpecAncestors == InitAncestors /\ [][ApplyIsInteractable]_vars

\* C21: no accepted mark with a score of 2 or less has an ancestor (by
\* parentElement) one to eight levels above it whose score is 2 or more.
C21_NoWeakMarkUnderStrongAncestor ==
    (call.fn = "isInteractable" /\ call.done)
    => \A el \in call.out :
          call.arg.score[el] <= 2
          => \A anc \in 1..ChainLen :
                (anc >= call.arg.top /\ anc < el /\ el - anc <= 8)
                => call.arg.score[anc] < 2

\* C21 happens: a mark of score 2 is accepted whose strong ancestor is nine
\* levels above it.
C21_Witness ==
    /\ call.fn = "isInteractable" /\ call.done
    /\ \E el \in call.out :
          /\ call.arg.score[el] = 2
          /\ el - 9 >= call.arg.top /\ call.arg.score[el - 9] >= 2

\* ------------------------------------------------- injectSoM: cap
MaxOverCap == 3
MaxPairTurns == 13
MaxDetectTurns == 14
MaxDetectOdd == 3
\* a page with n candidates side by side, met by traverse() from the lowest
\* ranked to the highest; candidate dup, if any, lies on the rectangle of its
\* neighbour; graded: the scores rise from 1 to 4 along the row
RowCandidate(el, n, dup, graded) ==
    LET at == IF el = dup THEN el + 1 ELSE el
    IN  [el |-> el,
         rect |-> RectData(100 * at * SubPixels, 0, (MinSidePx + at) * SubPixels,
                           MinSidePx * SubPixels),
         score |-> IF graded THEN 1 + ((NativeScore * (el - 1)) \div n) ELSE NativeScore]
RowPage(n, dup, graded) == [el \in 1..n |-> RowCandidate(el, n, dup, graded)]
RowPages ==
    {RowPage(n, dup, graded) :
        n \in (MaxMarks - 2)..(MaxMarks + MaxOverCap),
        dup \in {0, 1, 2, 100, MaxMarks - 3, MaxMarks - 4, MaxMarks - 5, MaxMarks - 6},
        graded \in BOOLEAN}

InitCap ==
    /\ InitAgent /\ limits = NoLimits /\ files = NoFiles
    /\ call \in {[fn |-> "acceptMarks", arg |-> pg, out |-> <<>>, done |-> FALSE] :
                    pg \in RowPages}

SpecCap == InitCap /\ [][ApplyAcceptMarks]_vars

\* C22: an observation holds at most 220 marks, and they are the first 220
\* non-duplicate candidates in rank order (score descending, then area
\* descending): the marks are in rank order, none is a duplicate of another,
\* and a candidate that is no mark either duplicates a mark ranked no later
\* than it, or the cap is reached and no mark ranks after it.
C22_CapAndRank ==
    (call.fn = "acceptMarks" /\ call.done)
    => LET marks == call.out
           ranksBefore(a, b) ==
               a.score > b.score \/ (a.score = b.score /\ a.rect.area > b.rect.area)
           heavy(a, b) ==
               OverlapArea(a.rect, b.rect) * 100
                  > 92 * (IF a.rect.area < b.rect.area THEN a.rect.area ELSE b.rect.area)
           kept == {marks[i] : i \in DOMAIN marks}
       IN  /\ Len(marks) <= 220
           /\ \A i \in DOMAIN marks : \E k \in DOMAIN call.arg : call.arg[k] = marks[i]
           /\ \A i, j \in DOMAIN marks :
                 i < j => ~ranksBefore(marks[j], marks[i]) /\ ~heavy(marks[i], marks[j])
           /\ \A k \in DOMAIN call.arg :
                 call.arg[k] \notin kept
                 => \/ \E m \in kept : heavy(call.arg[k], m) /\ ~ranksBefore(call.arg[k], m)
                    \/ Len(marks) = 220 /\ \A m \in kept : ~ranksBefore(call.arg[k], m)

\* C22 happens: more than 220 candidates pass the filters, one of them a
\* duplicate, and 220 marks are kept.
C22_Witness ==
    /\ call.fn = "acceptMarks" /\ call.done
    /\ Len(call.arg) > 221 /\ Len(call.out) = 220
    /\ \E i, j \in DOMAIN call.arg : i # j /\ call.arg[i].rect = call.arg[j].rect

\* ------------------------------------------------- parseModelJson
\* text.indexOf(ch): 0 when ch does not occur (positions count from 1)
IndexOf(text, ch) ==
    IF \E i \in DOMAIN text : text[i] = ch
    THEN CHOOSE i \in DOMAIN text : text[i] = ch /\ \A j \in 1..(i - 1) : text[j] # ch
    ELSE 0

\* the for loop of extractFirstJsonObject from position i on; <<>> is null
RECURSIVE ScanObject(_, _, _, _, _, _)
ScanObject(text, start, i, depth, inString, escaped) ==
    IF i > Len(text) THEN <<>>
    ELSE LET ch == text[i] IN
         IF inString
         THEN IF escaped THEN ScanObject(text, start, i + 1, depth, TRUE, FALSE)
              ELSE IF ch = "\\" THEN ScanObject(text, start, i + 1, depth, TRUE, TRUE)
              ELSE IF ch = "\"" THEN ScanObject(text, start, i + 1, depth, FALSE, FALSE)
              ELSE ScanObject(text, start, i + 1, depth, TRUE, FALSE)
         ELSE IF ch = "\"" THEN ScanObject(text, start, i + 1, depth, TRUE, FALSE)
         ELSE LET opened == IF ch = "{" THEN depth + 1 ELSE depth
                  closed == IF ch = "}" THEN opened - 1 ELSE opened
              IN  IF ch = "}" /\ closed = 0 THEN SubSeq(text, start, i)
                  ELSE ScanObject(text, start, i + 1, closed, FALSE, FALSE)

ExtractFirstJsonObject(text) ==
    LET start == IndexOf(text, "{")
    IN  IF start = 0 THEN <<>> ELSE ScanObject(text, start, start, 0, FALSE, FALSE)

\* JSON.parse for texts of strings and objects: the value in canonical form
\* (no white space), or a SyntaxError
JsonWs == {" ", "\n", "\t", "\r"}
SkipWs(text, i) ==
    IF \E j \in i..Len(text) : text[j] \notin JsonWs
    THEN CHOOSE j \in i..Len(text) :
            text[j] \notin JsonWs /\ \A k \in i..(j - 1) : text[k] \in JsonWs
    ELSE Len(text) + 1
NoValue == [ok |-> FALSE, next |-> 0, val |-> <<>>]
RECURSIVE StringBody(_, _, _)
StringBody(text, i, acc) ==
    IF i > Len(text) \/ text[i] = "\n" THEN NoValue
    ELSE IF text[i] = "\"" THEN [ok |-> TRUE, next |-> i + 1, val |-> Append(acc, "\"")]
    ELSE IF text[i] = "\\"
    THEN IF i < Len(text) /\ text[i + 1] \in {"\"", "\\", "n"}
         THEN StringBody(text, i + 2, acc \o <<"\\", text[i + 1]>>)
         ELSE NoValue
    ELSE StringBody(text, i + 1, Append(acc, text[i]))
JsonString(text, i) ==
    IF i <= Len(text) /\ text[i] = "\"" THEN StringBody(text, i + 1, <<"\"">>) ELSE NoValue
RECURSIVE JsonValue(_, _)
RECURSIVE JsonMembers(_, _, _)
JsonValue(text, i) ==
    IF i > Len(text) THEN NoValue
    ELSE IF text[i] = "\"" THEN JsonString(text, i)
    ELSE IF text[i] = "{"
    THEN LET j == SkipWs(text, i + 1)
         IN  IF j <= Len(text) /\ text[j] = "}"
             THEN [ok |-> TRUE, next |-> j + 1, val |-> <<"{", "}">>]
             ELSE JsonMembers(text, j, <<"{">>)
    ELSE NoValue
JsonMembers(text, i, acc) ==
    LET key == JsonString(text, i)
        colon == SkipWs(text, key.next)
        value == JsonValue(text, SkipWs(text, colon + 1))
        after == SkipWs(text, value.next)
        sofar == acc \o key.val \o <<":">> \o value.val
    IN  IF ~key.ok \/ colon > Len(text) \/ text[colon] # ":" THEN NoValue
        ELSE IF ~value.ok \/ after > Len(text) THEN NoValue
        ELSE IF text[after] = "}" THEN [ok |-> TRUE, next |-> after + 1,
                                        val |-> Append(sofar, "}")]
        ELSE IF text[after] = ","
        THEN JsonMembers(text, SkipWs(text, after + 1), Append(sofar, ","))
        ELSE NoValue
Threw == [threw |-> TRUE, value |-> <<>>]
JsonParse(text) ==
    LET v == JsonValue(text, SkipWs(text, 1))
    IN  IF v.ok /\ SkipWs(text, v.next) > Len(text)
        THEN [threw |-> FALSE, value |-> v.val] ELSE Threw

\* the two replace calls that drop a leading fence, with an optional json
\* tag in either case, and a fence at the very end
\* (the character # stands for the backquote of a Markdown fence)
Fence == <<"#", "#", "#">>
StartsWith(text, pre) == Len(text) >= Len(pre) /\ SubSeq(text, 1, Len(pre)) = pre
StripLeadingFence(text) ==
    IF ~StartsWith(text, Fence) THEN text
    ELSE LET rest == SubSeq(text, 4, Len(text))
         IN  IF StartsWith(ToLowerCase(rest), <<"j", "s", "o", "n">>)
             THEN SubSeq(rest, 5, Len(rest)) ELSE rest
StripTrailingFence(text) ==
    IF Len(text) >= 3 /\ SubSeq(text, Len(text) - 2, Len(text)) = Fence
    THEN SubSeq(text, 1, Len(text) - 3) ELSE text

ParseModelJson(responseText) ==
    LET trimmed == Trim(StripTrailingFence(StripLeadingFence(Trim(responseText))))
        whole == JsonParse(trimmed)
        jsonBlock == ExtractFirstJsonObject(trimmed)
    IN  IF ~whole.threw THEN whole
        ELSE IF jsonBlock = <<>> THEN Threw
        ELSE JsonParse(jsonBlock)

\* replies: prose, then a JSON object with an action field, then trailing
\* text; the object alone or all of it in a code fence
Payloads == {
    <<"{", "\"", "a", "\"", ":", "\"", "c", "\"", "}">>,
    <<"{", " ", "\"", "a", "\"", ":", " ", "\"", "}", "\"", ",", "\"", "v", "\"", ":",
      "{", "\"", "k", "\"", ":", "\"", "\\", "\"", "\"", "}", "}">>,
    <<"{", "\"", "a", "\"", ":", "\"", "{", "\"", "}">>}
Proses == {<<>>, <<"p", " ">>, <<"p", "\"", "q", "\"", " ">>, <<"p", " ", "{", "x", "}", " ">>,
           <<"s", "e", "t", " ", "{", " ">>, <<"p", "}", " ">>}
Trailers == {<<>>, <<" ", "t">>, <<" ", "}">>, <<"\n", "{", "t">>, <<" ", "\"">>}
FenceKinds == {"none", "object", "reply"}
Fenced(text) == Fence \o <<"J", "s", "o", "n", "\n">> \o text \o <<"\n">> \o Fence
ReplyText(rp) ==
    IF rp.fence = "object" THEN rp.prose \o Fenced(rp.payload) \o rp.trailer
    ELSE IF rp.fence = "reply" THEN Fenced(rp.prose \o rp.payload \o rp.trailer)
    ELSE rp.prose \o rp.payload \o rp.trailer

InitParse ==
    /\ InitAgent /\ limits = NoLimits /\ files = NoFiles
    /\ call \in {[fn |-> "parseModelJson",
                  arg |-> [prose |-> pr, payload |-> pl, trailer |-> tr, fence |-> fk],
                  out |-> Threw, done |-> FALSE] :
                    pr \in Proses, pl \in Payloads, tr \in Trailers, fk \in FenceKinds}

ApplyParseModelJson ==
    /\ call.fn = "parseModelJson" /\ ~call.done
    /\ call' = [call EXCEPT !.out = ParseModelJson(ReplyText(call.arg)), !.done = TRUE]
    /\ PureFrame

SpecParse == InitParse /\ [][ApplyParseModelJson]_vars

\* C23: for a reply that holds a balanced {...} block with a JSON object with
\* an action field, in a code fence or not, after prose (with braces or
\* quotes of its own) or before trailing text, parseModelJson returns that
\* object and does not throw.
C23_ObjectFound ==
    (call.fn = "parseModelJson" /\ call.done)
    => ~call.out.threw /\ call.out = JsonParse(call.arg.payload)

\* ------------------------------------------------- the speech watchdog
HasEvent(evs, ev) == \E i \in DOMAIN evs : evs[i] = ev

\* C24: when the watchdog of the outstanding speech request fires (no matching
\* tts_done came), the suspended loop is released and goes on with the step
\* event of its pending decision, and a warning thought about the playback
\* timeout is emitted, by the watchdog or by the loop as it resumes.
C24_TimeoutWarns ==
    [][/\ \A k \in timers :
            (TtsTimeout(k) /\ k = pendingTtsAckTimer /\ pendingTtsAckResolve \in Waiters)
            => micro' = <<pendingTtsAckResolve>>
       /\ \A l \in Waiters :
            (emitted.by = "timer" /\ LoopResumeSpeech(l))
            => /\ HasEvent(emitted'.events, Ev("step", loops[l].dec.action))
               /\ \/ HasEvent(emitted.events, Thought("tts-timeout"))
                  \/ HasEvent(emitted'.events, Thought("tts-timeout"))]_vars

\* ------------------------------------------------- status lifecycle
\* the status events that may follow status event s within the lifecycle
\* idle, starting, scanning, thinking, acting, stopped (a turn that fails
\* starts the next one from where it was)
MayFollow(s) ==
    IF s \in {"idle", "stopped"} THEN {"starting", "stopped"}
    ELSE IF s = "starting" THEN {"scanning", "stopped"}
    ELSE IF s = "scanning" THEN {"scanning", "thinking", "stopped"}
    ELSE IF s = "thinking" THEN {"scanning", "acting", "stopped"}
    ELSE {"scanning", "stopped"}

\* C25: the status events of a run follow the lifecycle: starting comes first
\* and once, in a turn scanning comes before thinking and thinking before
\* acting, and stopped is the last status of the run: after it no scanning,
\* thinking or acting is emitted.
C25_StatusLifecycle ==
    [][status' # status => status' \in MayFollow(status)]_vars

\* ------------------------------------------------- the catch of loop()
\* loop l enters the catch of its turn in this step
Caught(l) == loops[l].pc # "errwait" /\ loops'[l].pc = "errwait"
\* the exception's message names mark t: executeAction did not find it
NamesMark(l, t) ==
    /\ loops[l].pc = "act" /\ page \in livePages
    /\ loops[l].dec.targetId = t /\ t # NoTarget

\* C26: an exception raised inside a turn is caught and gives a thought event,
\* an error record in the error log, a charge to the failed-target ledger
\* when its message names a mark, and the 5 s wait before the next turn; the
\* loop does not exit because of it.
C26_ExceptionsReified ==
    [][\A l \in StartIds :
          /\ Caught(l)
             => /\ HasEvent(emitted'.events, Thought("error"))
                /\ thoughtLog' > thoughtLog
                /\ errorLog' = errorLog + 1
                /\ \A t \in Targets :
                      NamesMark(l, t) => failedTargetIds'[t] > failedTargetIds[t]
          /\ (loops[l].pc = "shot" /\ loops[l].on \notin livePages /\ LoopShot(l))
             => loops'[l].pc = "errwait"]_vars

\* ------------------------------------------------- the order of a turn
\* the suspension points of a turn, each with the ones that may come next:
\* cookie pass; perception; screenshot; decision (history, stagnation check,
\* thought); speech gate; (step event, termination check) action; settle
ComesNext(pc) ==
    IF pc = "cookie" THEN {"som"}
    ELSE IF pc = "som" THEN {"shot"}
    ELSE IF pc = "shot" THEN {"llm"}
    ELSE IF pc = "llm" THEN {"ttsreq", "act"}
    ELSE IF pc = "ttsreq" THEN {"ttswait", "act"}
    ELSE IF pc = "ttswait" THEN {"act"}
    ELSE IF pc = "act" THEN {"settle"}
    ELSE {}
\* the next turn, the catch, the exit
TurnEnds == {"cookie", "errwait", "done"}
StepEvents(evs) == {i \in DOMAIN evs : evs[i].type = "step"}

\* C27: a turn goes through cookie pass, perception, screenshot event,
\* decision, append to history, stagnation check, thought event, speech gate,
\* step event, termination check, action, settle, in this order; a turn that
\* obtains a decision appends exactly that one decision to the history, and
\* does so before the decision's thought and step events.
C27_TurnOrder ==
    [][\A l \in StartIds :
          (LiveLoop(l) /\ loops'[l] # loops[l] /\ emitted'.by = By(l))
          => LET pc == loops[l].pc
                 evs == emitted'.events
             IN  /\ loops'[l].pc # pc => loops'[l].pc \in ComesNext(pc) \cup TurnEnds
                 /\ HasEvent(evs, Status("scanning")) => pc = "cookie"
                 /\ HasEvent(evs, Ev("screenshot", "png")) => pc = "shot"
                 /\ HasEvent(evs, Status("thinking")) => pc = "shot"
                 /\ IF pc = "llm"
                    THEN /\ Len(history') = Len(history) + 1
                         /\ SubSeq(history', 1, Len(history)) = history
                    ELSE history' = history
                 /\ (HasEvent(evs, Thought("decision")) \/ HasEvent(evs, Thought("circles")))
                    => pc = "llm" /\ evs[1].type = "thought"
                 /\ HasEvent(evs, Thought("decision")) => ~HasEvent(evs, Thought("circles"))
                 /\ \A i \in StepEvents(evs) :
                       /\ pc \in {"llm", "ttsreq", "ttswait"}
                       /\ evs[i].data = IF pc = "llm" THEN history'[Len(history')].action
                                        ELSE loops[l].dec.action
                       /\ pc = "llm" => (i > 1 /\ evs[i - 1] = Thought("decision"))
                 /\ HasEvent(evs, Status("acting"))
                    => /\ StepEvents(evs) # {}
                       /\ \A i \in StepEvents(evs) : i < Len(evs)
                       /\ loops'[l].pc \in {"act", "cookie", "done"}
                 /\ traceSteps' # traceSteps => pc = "act" /\ loops'[l].pc = "settle"]_vars

\* C27 happens: a loop is in the settle of its second turn, after a speech
\* gate that waited for playback.
C27_Witness ==
    \E l \in StartIds :
        /\ loops[l].pc = "settle" /\ loops[l].stepCount = 2
        /\ Len(history) = 2 /\ ttsSeq >= 1 /\ stepLog = 2

\* ------------------------------------------------- done and stop
Terminal == {d \in {Usual} \cup OddDecisions : d.action \in {"done", "stop"}}
\* what the claim says of the turn of loop l that obtains decision d
EndsRun(l, d) ==
    /\ HasEvent(emitted'.events, Thought("decision"))
    /\ HasEvent(emitted'.events, Ev("step", d.action))
    /\ thoughtLog' > thoughtLog /\ stepLog' = stepLog + 1
    /\ ~HasEvent(emitted'.events, Status("acting"))
    /\ traceSteps' = traceSteps
    /\ loops'[l] = DoneLoop
    /\ BagIn(FreshTeardown, teardowns') /\ micro' = <<0>>

\* C28: a decision whose action is done or stop has its thought and step
\* events emitted, no action is executed and no trace step recorded for it,
\* the loop exits without another turn and stop() is called.
C28_DoneEndsRun ==
    [][\A l \in StartIds, d \in Terminal : LoopDecide(l, d) => EndsRun(l, d)]_vars

\* C28 as it holds: the same, for a decision that does not make the
\* stagnation check end the turn; when it does, the going-in-circles thought
\* is all that is emitted, and the loop exits and calls stop() as well.
C28_DoneEndsRunUnlessCircling ==
    [][\A l \in StartIds, d \in Terminal :
          LoopDecide(l, d)
          => IF DetectStagnation(Append(history, d), stagnationCounter).stop
             THEN /\ emitted'.events = <<Thought("circles")>>
                  /\ stepLog' = stepLog /\ traceSteps' = traceSteps
                  /\ loops'[l] = DoneLoop
                  /\ BagIn(FreshTeardown, teardowns') /\ micro' = <<0>>
             ELSE EndsRun(l, d)]_vars

\* C28 happens: the last decision was done, its step event is out and the
\* loop has exited into stop().
C28_Witness ==
    /\ history # <<>> /\ history[Len(history)].action = "done"
    /\ emitted.by = "loop" /\ HasEvent(emitted.events, Ev("step", "done"))
    /\ LiveLoops = {} /\ BagIn(FreshTeardown, teardowns)

\* ------------------------------------------------- the stagnation counter
\* a run that is stopped in its first turn and started again while its loop
\* is suspended, with turns enough for the history window to fill
InitPair ==
    /\ InitAgent
    /\ limits = [starts |-> MaxRestarts, stops |-> MaxStops, turns |-> MaxPairTurns,
                 faults |-> 0, odd |-> 0, options |-> PlainOptions,
                 observe |-> TRUE, tabs |-> FALSE]
    /\ call = NoCall /\ files = NoFiles

NextPair ==
    \/ StartRejected
    \/ \E o \in limits.options : StartAccepted(o)
    \/ \E n \in StartIds : StartLaunched(n)
    \/ \E n \in StartIds : StartContext(n)
    \/ \E n \in StartIds : StartGoto(n)
    \/ \E n \in StartIds : StartHydrate(n)
    \/ \E l \in StartIds : LoopCookie(l)
    \/ \E l \in StartIds : LoopSom(l)
    \/ \E l \in StartIds : LoopShot(l)
    \/ \E l \in StartIds : LoopDecide(l, Usual)
    \/ \E l \in StartIds : LoopAct(l)
    \/ \E l \in StartIds : LoopSettle(l)
    \/ \E l \in StartIds : LoopErrWait(l)
    \/ (used.turns = 0 /\ StopRequest)
    \/ StopPrefix
    \/ \E r \in TeardownRecords : StopReportWritten(r)
    \/ \E r \in TeardownRecords : StopContextClosed(r)
    \/ \E r \in TeardownRecords : StopBrowserClosed(r)

SpecPair == InitPair /\ [][NextPair]_vars

\* C29: the stagnation counter is always in 0..3 and a start sets it to 0;
\* a decision adds 1 to it when the last ten history entries are loop-like
\* (at least 8 actionable, at most 3 distinct pairs) and takes 1 from it, not
\* below 0, otherwise, also while the history holds fewer than ten entries;
\* the loop exits for stagnation exactly when the counter reaches 3.
C29_CounterRule ==
    /\ [](stagnationCounter \in 0..StagnationLimit)
    /\ [][/\ \A o \in limits.options : StartAccepted(o) => stagnationCounter' = 0
          /\ \A l \in StartIds, d \in {Usual} \cup OddDecisions :
                LoopDecide(l, d)
                => /\ stagnationCounter' =
                         IF CirclesAt(history', Len(history'))
                         THEN stagnationCounter + 1
                         ELSE IF stagnationCounter = 0 THEN 0 ELSE stagnationCounter - 1
                   /\ (emitted'.events = <<Thought("circles")>> /\ loops'[l] = DoneLoop)
                      <=> stagnationCounter' = StagnationLimit]_vars

\* ------------------------------------------------- detectStagnation alone
\* the decisions of one run, one after another: call.arg is this.history,
\* call.out the counter and what detectStagnation() returned last
InitDetect ==
    /\ InitAgent /\ limits = NoLimits /\ files = NoFiles
    /\ call = [fn |-> "detectStagnation", arg |-> <<>>,
               out |-> [counter |-> 0, stop |-> FALSE], done |-> FALSE]

OddIn(hist) == Cardinality({i \in DOMAIN hist : hist[i] # Usual})

\* this.history.push(decision); if (this.detectStagnation()) break; and the
\* break of a done or stop decision
PushAndDetect(d) ==
    /\ call.fn = "detectStagnation" /\ ~call.done
    /\ Len(call.arg) < MaxDetectTurns
    /\ d = Usual \/ OddIn(call.arg) < MaxDetectOdd
    /\ LET hist == Append(call.arg, d)
           r == DetectStagnation(hist, call.out.counter)
       IN  call' = [call EXCEPT !.arg = hist, !.out = r,
                                !.done = r.stop \/ d.action \in {"done", "stop"}]
    /\ PureFrame

SpecDetect == InitDetect /\ [][\E d \in {Usual} \cup OddDecisions : PushAndDetect(d)]_vars

\* C30: the loop exits for stagnation only after three consecutive loop-like
\* turns: when one of the three most recent turns was not loop-like (fewer
\* than ten entries, fewer than 8 actionable, more than 3 distinct pairs),
\* this turn does not exit for stagnation.
C30_OnlyThreeInARow ==
    (call.fn = "detectStagnation" /\ call.out.stop) => ThirdCircle(call.arg)

\* ------------------------------------------------- executeAction, step by step
\* executeAction of a click, one action per await: call.out lists the page
\* each page operation of the current executeAction call was issued to
ActFrame ==
    UNCHANGED <<isRunning, isTtsEnabled, flagVars, refVars, traceSavedThisRun,
                currentRunDir, starts, liveBrowsers, livePages, limits, files,
                history, stagnationCounter, ttsVars, timers, ttsSeq, used>>
\* a page operation on page p rejects when p is closed: the catch of loop()
ActThrows(l) ==
    /\ Emit(<<Thought("error")>>, By(l)) /\ Logged(<<Thought("error")>>)
    /\ LoopNext(l, Seen(loops[l]), "errwait", micro)
    /\ UNCHANGED <<failedTargetIds, traceSteps>>
IssuedTo(p) == call' = [call EXCEPT !.out = Append(@, p)]
ActGoes(l, pc) ==
    /\ Emit(<<>>, By(l)) /\ Logged(<<>>)
    /\ LoopNext(l, Seen(loops[l]), pc, micro)
    /\ UNCHANGED <<failedTargetIds, traceSteps>>

\* const locator = this.page.locator(selector).first(); locator.count(),
\* scrollIntoViewIfNeeded(), boundingBox()
ActLocate(l) ==
    /\ micro = <<>>
    /\ loops[l].pc = "act"
    /\ IF page = Null \/ page \notin livePages
       THEN ActThrows(l) /\ call' = [call EXCEPT !.out = <<>>]
       ELSE ActGoes(l, "actmove") /\ call' = [call EXCEPT !.out = <<page>>]
    /\ ActFrame

\* moveCursorHumanLike: this.page.mouse.move(...) on the page read then
ActMove(l) ==
    /\ micro = <<>>
    /\ loops[l].pc = "actmove"
    /\ IF page = Null \/ page \notin livePages
       THEN \* moveCursorHumanLike returns; showCursorClickEffect rejects
            ActThrows(l) /\ UNCHANGED call
       ELSE ActGoes(l, "actdown") /\ IssuedTo(page)
    /\ ActFrame

\* showCursorClickEffect(this.page, ...); this.page.mouse.down()
ActDown(l) ==
    /\ micro = <<>>
    /\ loops[l].pc = "actdown"
    /\ IF page = Null \/ page \notin livePages
       THEN ActThrows(l) /\ UNCHANGED call
       ELSE ActGoes(l, "actup") /\ IssuedTo(page)
    /\ ActFrame

\* this.page.mouse.up(); createTraceStep({action: 'click', ...})
ActUp(l) ==
    /\ micro = <<>>
    /\ loops[l].pc = "actup"
    /\ IF page = Null \/ page \notin livePages
       THEN ActThrows(l) /\ UNCHANGED call
       ELSE /\ Emit(CursorEvents(loops[l].dec), By(l)) /\ Logged(<<>>)
            /\ CreateTraceStep(loops[l].dec.action)
            /\ LoopNext(l, Seen(loops[l]), "settle", micro)
            /\ IssuedTo(page)
            /\ UNCHANGED failedTargetIds
    /\ ActFrame

InitAct ==
    /\ InitAgent
    /\ limits = [starts |-> MaxStarts, stops |-> 0, turns |-> MaxTurns,
                 faults |-> MaxFaults, odd |-> 0, options |-> PlainOptions,
                 observe |-> FALSE, tabs |-> TRUE]
    /\ call = [fn |-> "executeAction", arg |-> <<>>, out |-> <<>>, done |-> FALSE]
    /\ files = NoFiles

NextAct ==
    \/ StartRejected
    \/ \E o \in limits.options : StartAccepted(o)
    \/ \E n \in StartIds : StartLaunched(n)
    \/ \E n \in StartIds : StartContext(n)
    \/ \E n \in StartIds : StartGoto(n)
    \/ \E n \in StartIds : StartHydrate(n)
    \/ \E l \in StartIds : LoopCookie(l)
    \/ \E l \in StartIds : LoopSom(l)
    \/ \E l \in StartIds : LoopShot(l)
    \/ \E l \in StartIds : LoopDecide(l, Usual)
    \/ \E l \in StartIds : ActLocate(l)
    \/ \E l \in StartIds : ActMove(l)
    \/ \E l \in StartIds : ActDown(l)
    \/ \E l \in StartIds : ActUp(l)
    \/ \E l \in StartIds : LoopSettle(l)
    \/ \E l \in StartIds : LoopErrWait(l)
    \/ \E p \in livePages : PageClose(p)
    \/ \E c \in StartIds : PageOpened(c)
    \/ StopPrefix
    \/ \E r \in TeardownRecords : StopReportWritten(r)
    \/ \E r \in TeardownRecords : StopContextClosed(r)
    \/ \E r \in TeardownRecords : StopBrowserClosed(r)

SpecAct == InitAct /\ [][NextAct]_vars

\* C31: between the start and the end of one executeAction call all its page
\* operations (locator lookup, mouse move, mouse down and up) go to one page,
\* also when a popup, page, close or crash event is handled at an await
\* inside the action.
C31_OnePagePerAction ==
    call.fn = "executeAction"
    => \A i, j \in DOMAIN call.out : call.out[i] = call.out[j]

\* ------------------------------------------------- followNewPage, step by step
\* The handlers of a page the active page opens, one action per await.
\* call.arg is the new page; call.out holds trackedPages and autoFollowedPages
\* (the first page of the run is in both from start()), the events not yet
\* delivered, the handlers in flight, and two counts: lifecycle handler sets
\* attached to the new page, assignments of this.page by switchToPage.
\* (stop() replaces both WeakSets; they are read only while isRunning.)
NoFollow == [tracked |-> {}, followed |-> {}, events |-> {}, flights |-> {},
             attached |-> 0, changes |-> 0]
FollowFrame ==
    UNCHANGED <<isRunning, isTtsEnabled, flagVars, browser, context, runVars,
                traceSavedThisRun, currentRunDir, ttsVars, procVars, liveBrowsers,
                timers, ttsSeq, used, limits, files>>
Quiet == Emit(<<>>, "page") /\ Logged(<<>>) /\ UNCHANGED traceSteps

\* the page of context c opens a second tab: the context fires 'page' and the
\* opener fires 'popup'
TabOpened(c) ==
    /\ micro = <<>>
    /\ call.fn = "followNewPage" /\ call.arg = Null
    /\ context = c /\ c \in livePages /\ Tab(c) \notin livePages
    /\ livePages' = livePages \cup {Tab(c)}
    /\ call' = [call EXCEPT !.arg = Tab(c), !.out.events = {"context", "popup"}]
    /\ Quiet /\ UNCHANGED page
    /\ FollowFrame

\* switchToPage(nextPage, source) up to its first await, as the step of
\* handler f; fs: the other handlers in flight, fo: the sets after the caller
SwitchToPage(f, fs, fo) ==
    IF ~isRunning \/ call.arg \notin livePages \/ page = call.arg
    THEN /\ call' = [call EXCEPT !.out = [fo EXCEPT !.flights = fs]]
         /\ UNCHANGED page
    ELSE /\ page' = call.arg
         /\ call' = [call EXCEPT !.out = [fo EXCEPT
                        !.flights = fs \cup {[src |-> f.src, pc |-> "front"]},
                        !.changes = @ + 1]]

\* followNewPage(newPage, source) up to its first await; blank: the page is
\* still at about:blank and waitForLoadState is awaited
FollowNewPage(src, blank) ==
    /\ micro = <<>>
    /\ call.fn = "followNewPage" /\ src \in call.out.events
    /\ LET q == call.arg
           o == [call.out EXCEPT !.events = @ \ {src}]
           attach == q \notin o.tracked
           oa == [o EXCEPT !.tracked = @ \cup {q},
                           !.attached = IF attach THEN @ + 1 ELSE @]
           of == [oa EXCEPT !.followed = @ \cup {q}]
       IN  IF ~isRunning \/ q \notin livePages
           THEN call' = [call EXCEPT !.out = o] /\ UNCHANGED page
           ELSE IF q = page \/ q \in oa.followed
           THEN call' = [call EXCEPT !.out = oa] /\ UNCHANGED page
           ELSE IF blank
           THEN /\ call' = [call EXCEPT !.out = [of EXCEPT
                               !.flights = @ \cup {[src |-> src, pc |-> "load"]}]]
                /\ UNCHANGED page
           ELSE SwitchToPage([src |-> src], of.flights, of)
    /\ Quiet /\ UNCHANGED livePages
    /\ FollowFrame

\* waitForLoadState has settled: switchToPage is called
FollowLoaded(f) ==
    /\ micro = <<>>
    /\ call.fn = "followNewPage" /\ f \in call.out.flights /\ f.pc = "load"
    /\ SwitchToPage(f, call.out.flights \ {f}, call.out)
    /\ Quiet /\ UNCHANGED livePages
    /\ FollowFrame

\* bringToFront has settled: initializeCursor is called
SwitchFront(f) ==
    /\ micro = <<>>
    /\ call.fn = "followNewPage" /\ f \in call.out.flights /\ f.pc = "front"
    /\ call' = [call EXCEPT !.out.flights = (@ \ {f}) \cup {[f EXCEPT !.pc = "cursor"]}]
    /\ Quiet /\ UNCHANGED <<page, livePages>>
    /\ FollowFrame

\* initializeCursor has settled: the tab-switch trace step and the thought
SwitchDone(f) ==
    /\ micro = <<>>
    /\ call.fn = "followNewPage" /\ f \in call.out.flights /\ f.pc = "cursor"
    /\ call' = [call EXCEPT !.out.flights = @ \ {f}]
    /\ CreateTraceStep("tab-switch")
    /\ Emit(<<Thought("tab-switch")>>, "page") /\ Logged(<<Thought("tab-switch")>>)
    /\ UNCHANGED <<page, livePages>>
    /\ FollowFrame

Flights == {[src |-> sr, pc |-> pc] : sr \in {"context", "popup"},
                                      pc \in {"load", "front", "cursor"}}

InitFollow ==
    /\ InitAgent
    /\ limits = [starts |-> MaxStarts, stops |-> MaxStops, turns |-> MaxTurns,
                 faults |-> 0, odd |-> 0, options |-> SaveOptions,
                 observe |-> FALSE, tabs |-> TRUE]
    /\ call = [fn |-> "followNewPage", arg |-> Null, out |-> NoFollow, done |-> FALSE]
    /\ files = NoFiles

NextFollow ==
    \/ \E o \in limits.options : StartAccepted(o)
    \/ \E n \in StartIds : StartLaunched(n)
    \/ \E n \in StartIds : StartContext(n)
    \/ \E n \in StartIds : StartGoto(n)
    \/ \E n \in StartIds : StartHydrate(n)
    \/ \E l \in StartIds : LoopCookie(l)
    \/ \E l \in StartIds : LoopSom(l)
    \/ \E l \in StartIds : LoopShot(l)
    \/ \E l \in StartIds : LoopDecide(l, Usual)
    \/ \E l \in StartIds : LoopAct(l)
    \/ \E l \in StartIds : LoopSettle(l)
    \/ \E l \in StartIds : LoopErrWait(l)
    \/ \E c \in StartIds : TabOpened(c)
    \/ \E src \in {"context", "popup"}, blank \in BOOLEAN : FollowNewPage(src, blank)
    \/ \E f \in Flights : FollowLoaded(f)
    \/ \E f \in Flights : SwitchFront(f)
    \/ \E f \in Flights : SwitchDone(f)
    \/ StopRequest
    \/ StopPrefix
    \/ \E r \in TeardownRecords : StopTraceWritten(r)
    \/ \E r \in TeardownRecords : StopThoughtsWritten(r)
    \/ \E r \in TeardownRecords : StopReportWritten(r)
    \/ \E r \in TeardownRecords : StopContextClosed(r)
    \/ \E r \in TeardownRecords : StopBrowserClosed(r)

SpecFollow == InitFollow /\ [][NextFollow]_vars

TabSwitches == Cardinality({i \in DOMAIN traceSteps : traceSteps[i] = "tab-switch"})

\* C32: a new page announced by the context's page event and by the opener's
\* popup event, in either order, their handlers interleaved, is followed
\* once: one switch of the active page, one set of lifecycle handlers; and,
\* the run having save-trace on, every change of the active page has its one
\* tab-switch trace step once the handlers have finished.
C32_FollowedOnce ==
    call.fn = "followNewPage"
    => /\ call.out.attached <= 1
       /\ call.out.changes <= 1
       /\ TabSwitches <= call.out.changes
       /\ (call.out.events = {} /\ call.out.flights = {})
          => TabSwitches = call.out.changes

\* ------------------------------------------------- the failed-target ledger
\* executeAction of loop l fails on the mark of its decision in this step
FailsOnMark(l) ==
    /\ LoopAct(l) /\ page \in livePages
    /\ loops'[l].pc = "errwait"

\* C33: a failed action on a mark adds exactly one to the count of that mark
\* in the failed-target ledger; no other mark and no action that did not
\* fail is charged; a start empties the ledger.
C33_ChargedOnce ==
    [][/\ \A o \in limits.options :
            StartAccepted(o) => \A t \in Targets : failedTargetIds'[t] = 0
       /\ \A l \in StartIds :
            LoopAct(l)
            => IF FailsOnMark(l)
               THEN failedTargetIds' =
                        [failedTargetIds EXCEPT ![loops[l].dec.targetId] = @ + 1]
               ELSE failedTargetIds' = failedTargetIds
       /\ failedTargetIds' # failedTargetIds
          => \/ \E o \in limits.options : StartAccepted(o)
             \/ \E l \in StartIds : FailsOnMark(l)]_vars

\* executeAction of loop l succeeds on the mark of its decision in this step
SucceedsOnMark(l) ==
    /\ LoopAct(l) /\ loops'[l].pc = "settle"
    /\ loops[l].dec.targetId # NoTarget

\* C34: the failure count of a mark decays: after a turn whose action on the
\* mark succeeds the count is lower than before, so that a mark that no longer
\* fails leaves the failed-ids hint in the end.
C34_LedgerDecays ==
    [][\A l \in StartIds :
          (SucceedsOnMark(l) /\ failedTargetIds[loops[l].dec.targetId] > 0)
          => failedTargetIds'[loops[l].dec.targetId]
                < failedTargetIds[loops[l].dec.targetId]]_vars

\* ------------------------------------------------- stop() with no run active
\* a run has been stopped and nothing of it is left in flight
NoRunLeft ==
    /\ ~isRunning /\ LiveLoops = {} /\ \A n \in StartIds : ~LiveStart(n)
    /\ browser = Null /\ used.starts > 0 /\ status = "stopped"
NoRunActive == NoRunLeft /\ teardowns = EmptyBag
Writers == {"trace", "thoughts", "report"}

\* C35: when stop has completed the state of the run is gone (history,
\* failed-target ledger, stagnation counter, thought, step and error logs,
\* trace steps), and so a stop() called when no run is active calls no
\* artifact writer: no trace_saved, no report_ready, no file written.
C35_StopDiscardsRun ==
    /\ [][(NoRunLeft /\ teardowns = SetToBag({FreshTeardown}) /\ StopPrefix)
          => \A r \in BagToSet(teardowns') : r.pc \notin Writers]_vars
    /\ [](NoRunActive
          => /\ history = <<>> /\ stagnationCounter = 0
             /\ \A t \in Targets : failedTargetIds[t] = 0
             /\ thoughtLog = 0 /\ stepLog = 0 /\ errorLog = 0
             /\ traceSteps = <<>>)

\* a step of a stop() that emits the event `type`
StopEmits(type) ==
    /\ teardowns' # teardowns
    /\ emitted'.by = "stop"
    /\ HasEvent(emitted'.events, Ev(type, "files"))

\* C36: a run emits trace_saved at most once and report_ready at most once,
\* also when the stop() of POST /stop and the stop() of the loop's exit
\* overlap: a stop() that emits one of them finds the files of the run
\* directory not yet written.
C36_ArtifactsOnce ==
    [][/\ StopEmits("trace_saved") => files.traceJson = NoFiles.traceJson
       /\ StopEmits("report_ready") => files.report = NoFiles.report]_vars

\* a step of a stop() that emits status stopped
StopEmitsStopped ==
    /\ teardowns' # teardowns
    /\ emitted'.by = "stop"
    /\ HasEvent(emitted'.events, Status("stopped"))
\* a step of a stop() that writes the thought files
StopWritesThoughts ==
    /\ teardowns' # teardowns
    /\ emitted'.by = "stop"
    /\ files'.thoughtsJson # files.thoughtsJson
\* the artifacts of a stop() come before its status stopped and before the
\* browser is closed
BeforeStopped ==
    [][StopEmits("trace_saved") \/ StopWritesThoughts \/ StopEmits("report_ready")
       => status # "stopped" /\ browser # Null]_vars
\* trace, then thoughts, then report
InOrder ==
    [][/\ StopEmits("trace_saved")
          => files.thoughtsJson = NotWritten /\ files.report = NoFiles.report
       /\ StopWritesThoughts => files.report = NoFiles.report]_vars
\* trace files only with save-trace, thought files only with save-thoughts
OnlyIfToggled ==
    [][/\ StopEmits("trace_saved") => traceSteps # <<>>
       /\ StopWritesThoughts
          => \E r \in BagToSet(teardowns) : r.pc = "thoughts" /\ r.sThoughts]_vars
\* report files exactly when a step was recorded
ReportIffSteps ==
    [][/\ StopEmits("report_ready") => stepLog > 0
       /\ (StopEmitsStopped /\ stepLog > 0 /\ currentRunDir /\ used.faults = 0)
          => files'.report # NoFiles.report]_vars

\* C37: on stop the artifacts are produced in the order trace (trace_saved),
\* thoughts, report (report_ready), all of them before status stopped and
\* before the browser is closed; trace files only if save-trace was on,
\* thought files only if save-thoughts was on, report files exactly when at
\* least one step was recorded.
C37_ArtifactOrder ==
    BeforeStopped /\ InOrder /\ OnlyIfToggled /\ ReportIffSteps

\* ------------------------------------------------ handleCookieBanner alone
\* what the page answers to one cookie pass: is a cookie surface visible, and
\* for each layer the visible candidates in the order the code tries them;
\* "works": after the click the surface is gone, "dud": it is still there
Layers == <<"strict", "container", "iframe", "vision">>
CandSeqs == {<<>>, <<"dud">>, <<"works">>, <<"dud", "dud">>, <<"dud", "works">>}
CookiePages ==
    [surface : BOOLEAN, strict : CandSeqs, container : CandSeqs, iframe : CandSeqs,
     vision : {<<>>, <<"dud">>, <<"works">>}]
\* the note of the trace step of a layer
CookieNote(layer) ==
    IF layer = "vision" THEN "cookie banner vision fallback"
    ELSE "cookie banner (" \o layer \o ")"

\* call.arg is the page; call.out the position of handleCookieBanner: the
\* layer it is in, the candidates of it not yet tried, whether the surface
\* is visible, the layers entered so far, the layer that dismissed it
InitCookie ==
    /\ isRunning = TRUE /\ isTtsEnabled = FALSE
    /\ isSaveTraceEnabled \in BOOLEAN /\ isSaveThoughtsEnabled = FALSE
    /\ isSaveScreenshotsEnabled = FALSE
    /\ browser = 1 /\ context = 1 /\ page = 1
    /\ history = <<>> /\ stagnationCounter = 0
    /\ failedTargetIds = [t \in Targets |-> 0]
    /\ traceSteps = <<>> /\ traceSavedThisRun = FALSE /\ currentRunDir = TRUE
    /\ thoughtLog = 0 /\ stepLog = 0 /\ errorLog = 0
    /\ pendingTtsAckId = Null /\ pendingTtsAckResolve = Null /\ pendingTtsAckTimer = Null
    /\ starts = [n \in StartIds |-> IF n = 1 THEN [pc |-> "done"] ELSE IdleStart]
    /\ loops = [n \in StartIds |-> IF n = 1 THEN [IdleLoop EXCEPT !.pc = "cookie", !.on = 1]
                                   ELSE IdleLoop]
    /\ teardowns = EmptyBag
    /\ micro = <<>>
    /\ liveBrowsers = {1} /\ livePages = {1} /\ timers = {} /\ ttsSeq = 0
    /\ used = [starts |-> 1, stops |-> 0, turns |-> 0, faults |-> 0, odd |-> 0]
    /\ emitted = NoOutput /\ status = "scanning"
    /\ limits = [NoLimits EXCEPT !.observe = TRUE]
    /\ files = NoFiles
    /\ \E pg \in CookiePages :
          call = [fn |-> "handleCookieBanner", arg |-> pg,
                  out |-> [pc |-> "entry", left |-> <<>>, surface |-> pg.surface,
                           tried |-> <<>>, won |-> "none"],
                  done |-> FALSE]

CookieFrame ==
    UNCHANGED <<isRunning, isTtsEnabled, flagVars, refVars, runVars, traceSavedThisRun,
                currentRunDir, ttsVars, procVars, liveBrowsers, livePages, timers,
                ttsSeq, used, limits, files>>
CookieSays(evs) == Emit(evs, "cookie") /\ Logged(evs)
\* handleCookieBanner goes on with `layer`
EnterLayer(layer) ==
    call' = [call EXCEPT !.out.pc = layer, !.out.left = call.arg[layer],
                         !.out.tried = Append(@, layer)]
CookieReturns(layer) ==
    call' = [call EXCEPT !.out.pc = "returned", !.out.surface = FALSE,
                         !.out.won = layer, !.done = TRUE]

\* handleCookieBanner up to the first layer: no surface, nothing to do
CookieEntry ==
    /\ call.fn = "handleCookieBanner" /\ call.out.pc = "entry"
    /\ IF call.arg.surface
       THEN EnterLayer("strict")
       ELSE call' = [call EXCEPT !.out.pc = "returned", !.done = TRUE]
    /\ CookieSays(<<>>) /\ UNCHANGED traceSteps
    /\ CookieFrame

\* clickCookieCandidate on the next candidate of `layer`; after the last one
\* handleCookieBanner goes on with `next`
ClickCookieCandidate(layer, next) ==
    /\ call.fn = "handleCookieBanner" /\ call.out.pc = layer
    /\ IF call.out.left = <<>>
       THEN /\ EnterLayer(next)
            /\ CookieSays(<<>>) /\ UNCHANGED traceSteps
       ELSE IF Head(call.out.left) = "works"
       THEN /\ CookieReturns(layer)
            /\ CreateTraceStep(CookieNote(layer))
            /\ CookieSays(<<Thought("cookie-accepted")>>)
       ELSE /\ call' = [call EXCEPT !.out.left = Tail(@)]
            /\ CookieSays(<<>>) /\ UNCHANGED traceSteps
    /\ CookieFrame

\* the pass over the frames of the page: the next visible strict button
CookieFramePass ==
    /\ call.fn = "handleCookieBanner" /\ call.out.pc = "iframe"
    /\ IF call.out.left = <<>>
       THEN /\ EnterLayer("vision")
            /\ CookieSays(<<>>)
       ELSE IF Head(call.out.left) = "works"
       THEN /\ CookieReturns("iframe")
            /\ CookieSays(<<Thought("cookie-accepted-iframe")>>)
       ELSE /\ call' = [call EXCEPT !.out.left = Tail(@)]
            /\ CookieSays(<<>>)
    /\ UNCHANGED traceSteps
    /\ CookieFrame

\* the vision fallback: findCookieAcceptPoint, and a click at its point
CookieVisionFallback ==
    /\ call.fn = "handleCookieBanner" /\ call.out.pc = "vision"
    /\ IF call.out.left = <<>>
       THEN /\ call' = [call EXCEPT !.out.pc = "returned", !.done = TRUE]
            /\ CookieSays(<<>>) /\ UNCHANGED traceSteps
       ELSE IF Head(call.out.left) = "works"
       THEN /\ CookieReturns("vision")
            /\ CreateTraceStep(CookieNote("vision"))
            /\ CookieSays(<<Thought("vision-fallback"), Thought("cookie-accepted-vision")>>)
       ELSE /\ call' = [call EXCEPT !.out.pc = "returned", !.done = TRUE]
            /\ CookieSays(<<Thought("vision-fallback")>>) /\ UNCHANGED traceSteps
    /\ CookieFrame

NextCookie ==
    \/ CookieEntry
    \/ ClickCookieCandidate("strict", "container")
    \/ ClickCookieCandidate("container", "iframe")
    \/ CookieFramePass
    \/ CookieVisionFallback
SpecCookie == InitCookie /\ [][NextCookie]_vars

\* C38: a cookie pass that dismissed the surface in some layer has, with
\* save-trace on, recorded exactly one trace step, whose note names that
\* layer, and emitted a thought; the layers are entered in the order strict,
\* container, iframe, vision and none after the one that succeeded; a pass
\* that leaves the surface visible records no trace step.
C38_DismissalTraced ==
    call.fn = "handleCookieBanner" =>
    LET o == call.out IN
    /\ o.tried = SubSeq(Layers, 1, Len(o.tried))
    /\ o.won # "none" => call.done /\ o.tried[Len(o.tried)] = o.won
    /\ (o.won # "none" /\ isSaveTraceEnabled)
          => traceSteps = <<CookieNote(o.won)>> /\ thoughtLog >= 1
    /\ o.surface => traceSteps = <<>>

\* --------------------------------------------- generateMonkeyDecision alone
MaxMonkeyMarks == 2
\* Math.random() in hundredths: the draws around each threshold and the ends
RollScale == 100
WaitBelow == 16
ScrollBelow == 36
TypeBelow == 56
Rolls == {0, WaitBelow - 1, WaitBelow, ScrollBelow - 1, ScrollBelow,
          TypeBelow - 1, TypeBelow, RollScale - 1}
Draws == {0, RollScale \div 2, RollScale - 1}
\* Math.floor(Math.random() * n)
RandomIndex(draw, n) == (draw * n) \div RollScale

MonkeyTexts == <<"test", "bmw", "zubehoer", "r1250", "adventure", "shop", "hello">>
RandomMonkeyText(draw) == MonkeyTexts[RandomIndex(draw, Len(MonkeyTexts)) + 1]

\* String.prototype.toLowerCase on the tags and roles of the sample marks
LowerOf(word) ==
    CASE word = "INPUT" -> "input"
      [] word = "TextArea" -> "textarea"
      [] word = "SearchBox" -> "searchbox"
      [] OTHER -> word
IsLikelyInput(meta) ==
    LET tag == LowerOf(meta.tag)
        role == LowerOf(meta.role)
    IN  tag = "input" \/ tag = "textarea" \/ role = "textbox" \/ role = "searchbox"
\* types into any mark
GenerateMonkeyDecisionAnywhere(som, roll, pick, word) ==
    LET elements == IF som.status = "success" THEN som.elements ELSE <<>>
        NoField == [thought |-> "", action |-> "", targetId |-> NoTarget, value |-> ""]
    IN  IF Len(elements) = 0
        THEN [NoField EXCEPT !.thought = "no-targets", !.action = "scroll"]
        ELSE IF roll < WaitBelow
        THEN [NoField EXCEPT !.thought = "wait", !.action = "wait"]
        ELSE IF roll < ScrollBelow
        THEN [NoField EXCEPT !.thought = "scroll", !.action = "scroll"]
        ELSE IF roll < TypeBelow
        THEN [NoField EXCEPT !.thought = "type", !.action = "type",
                             !.targetId = ToString(elements[RandomIndex(pick, Len(elements)) + 1].id),
                             !.value = RandomMonkeyText(word)]
        ELSE [NoField EXCEPT !.thought = "click", !.action = "click",
                             !.targetId = ToString(elements[RandomIndex(pick, Len(elements)) + 1].id)]

\* generateMonkeyDecision(somResult) with its three draws of Math.random():
\* randomRoll, the pick of the mark, the pick of the text. An absent field
\* of the response is NoTarget (targetId) or the empty string (value).
GenerateMonkeyDecision(som, roll, pick, word) ==
    LET elements == IF som.status = "success" THEN som.elements ELSE <<>>
        inputElements == SelectSeq(elements, IsLikelyInput)
        NoField == [thought |-> "", action |-> "", targetId |-> NoTarget, value |-> ""]
    IN  IF Len(elements) = 0
        THEN [NoField EXCEPT !.thought = "no-targets", !.action = "scroll"]
        ELSE IF roll < WaitBelow
        THEN [NoField EXCEPT !.thought = "wait", !.action = "wait"]
        ELSE IF roll < ScrollBelow
        THEN [NoField EXCEPT !.thought = "scroll", !.action = "scroll"]
        ELSE IF Len(inputElements) > 0 /\ roll < TypeBelow
        THEN [NoField EXCEPT !.thought = "type", !.action = "type",
                             !.targetId = ToString(inputElements[
                                 RandomIndex(pick, Len(inputElements)) + 1].id),
                             !.value = RandomMonkeyText(word)]
        ELSE [NoField EXCEPT !.thought = "click", !.action = "click",
                             !.targetId = ToString(elements[RandomIndex(pick, Len(elements)) + 1].id)]

\* the marks of an observation: ids 0, 1, ... in the order of the list
MarkKinds == {[tag |-> "button", role |-> ""], [tag |-> "INPUT", role |-> ""],
              [tag |-> "TextArea", role |-> ""], [tag |-> "div", role |-> "textbox"],
              [tag |-> "div", role |-> "SearchBox"], [tag |-> "a", role |-> "link"]}
Observations ==
    UNION {[1..n -> MarkKinds] : n \in 0..MaxMonkeyMarks}
SomOf(kinds) ==
    [status |-> "success", count |-> Len(kinds),
     elements |-> [i \in DOMAIN kinds |-> [id |-> i - 1, tag |-> kinds[i].tag,
                                            role |-> kinds[i].role]]]
NoSom == [status |-> "null"]

InitMonkey ==
    /\ InitAgent /\ limits = NoLimits /\ files = NoFiles
    /\ \E som \in {NoSom} \cup {SomOf(k) : k \in Observations} :
          call = [fn |-> "generateMonkeyDecision", arg |-> som, out |-> <<>>,
                  done |-> FALSE]
ApplyMonkey(roll, pick, word) ==
    /\ call.fn = "generateMonkeyDecision" /\ ~call.done
    /\ call' = [call EXCEPT !.out = GenerateMonkeyDecision(call.arg, roll, pick, word),
                            !.done = TRUE]
    /\ PureFrame
SpecMonkey ==
    InitMonkey /\ [][\E roll \in Rolls, pick \in Draws, word \in Draws :
                        ApplyMonkey(roll, pick, word)]_vars

MarksOf(som) == IF som.status = "success" THEN som.elements ELSE <<>>
\* C39: for every SoM result, null included, and every draw the Monkey
\* decision is well-formed: scroll without target when no mark was observed;
\* else one of wait, scroll, type, click; a click targets the id of an
\* observed mark; a type targets an input-like mark (tag input or textarea,
\* role textbox or searchbox) and carries a non-empty value.
C39_MonkeyWellFormed ==
    (call.fn = "generateMonkeyDecision" /\ call.done) =>
    LET d == call.out
        marks == MarksOf(call.arg)
        Hits(i) == d.targetId = ToString(marks[i].id)
    IN  /\ marks = <<>> => d.action = "scroll" /\ d.targetId = NoTarget
        /\ d.action \in {"wait", "scroll", "type", "click"}
        /\ d.action \in {"wait", "scroll"} => d.targetId = NoTarget
        /\ d.action = "click" => \E i \in DOMAIN marks : Hits(i)
        /\ d.action = "type"
              => /\ \E i \in DOMAIN marks :
                      /\ Hits(i)
                      /\ \/ marks[i].tag \in {"INPUT", "TextArea"}
                         \/ marks[i].role \in {"textbox", "SearchBox"}
                 /\ d.value # ""
C39_Witness ==
    /\ call.fn = "generateMonkeyDecision" /\ call.done
    /\ call.out.action = "type" /\ call.out.targetId = "1"
    /\ Len(MarksOf(call.arg)) = MaxMonkeyMarks

\* ------------------------------------------- injectSoM: the stability wait
PopcornWaitMs == 500
MaxWaitMs == 3000
\* the clock of the page advances by at most TickMs at a time, and watches
\* the wait up to HorizonMs
TickMs == 250
HorizonMs == 4000
\* a timer that is not set, or was cleared
NoTimer == 0 - 1

\* call.out: now, the clock; timer and hardCap, the due times of the two
\* timeouts; observing, is the MutationObserver connected; resolved, the flag
\* of done(); resolves, how often resolve() was called and at, when; last,
\* the time of the latest mutation the callback has handled (0: none); dom,
\* the time of the latest mutation of the page
InitWait ==
    /\ InitAgent /\ limits = NoLimits /\ files = NoFiles
    /\ call = [fn |-> "stabilityWait", arg |-> <<>>,
               out |-> [now |-> 0, timer |-> PopcornWaitMs, hardCap |-> MaxWaitMs,
                        observing |-> TRUE, resolved |-> FALSE, resolves |-> 0,
                        at |-> NoTimer, last |-> 0, dom |-> 0],
               done |-> FALSE]

Waiting == call.fn = "stabilityWait"
Due(w) == {t \in {w.timer, w.hardCap} : t # NoTimer}
\* const done = () => {...}
Done(w) ==
    IF w.resolved THEN w
    ELSE [w EXCEPT !.resolved = TRUE, !.observing = FALSE, !.hardCap = NoTimer,
                   !.timer = NoTimer, !.resolves = @ + 1, !.at = w.now]
\* a mutation whose callback leaves the running timer alone
MutationKeepsTimer ==
    /\ Waiting
    /\ LET w == [call.out EXCEPT !.dom = call.out.now] IN
       call' = [call EXCEPT !.out =
                   IF w.observing /\ ~w.resolved THEN [w EXCEPT !.last = w.now] ELSE w]
    /\ PureFrame
\* the page mutates (child list, subtree or attributes): the callback of the
\* MutationObserver, when it is still connected
Mutation ==
    /\ Waiting
    /\ LET w == [call.out EXCEPT !.dom = call.out.now] IN
       call' = [call EXCEPT !.out =
                   IF w.observing /\ ~w.resolved
                   THEN [w EXCEPT !.timer = w.now + PopcornWaitMs, !.last = w.now]
                   ELSE w]
    /\ PureFrame
\* time passes, up to the next timeout that is due
Tick ==
    /\ Waiting
    /\ call.out.now < HorizonMs
    /\ \A t \in Due(call.out) : call.out.now < t
    /\ LET w == call.out
           step == w.now + TickMs
           next == IF \E t \in Due(w) : t < step
                   THEN CHOOSE t \in Due(w) : \A u \in Due(w) : t <= u
                   ELSE step
       IN  call' = [call EXCEPT !.out.now = next]
    /\ PureFrame
\* setTimeout(done, POPCORN_WAIT_MS) fires
QuietTimeout ==
    /\ Waiting
    /\ call.out.timer # NoTimer /\ call.out.timer <= call.out.now
    /\ call' = [call EXCEPT !.out = Done([call.out EXCEPT !.timer = NoTimer]),
                            !.done = TRUE]
    /\ PureFrame
\* setTimeout(done, MAX_WAIT_MS) fires
HardCapTimeout ==
    /\ Waiting
    /\ call.out.hardCap # NoTimer /\ call.out.hardCap <= call.out.now
    /\ call' = [call EXCEPT !.out = Done([call.out EXCEPT !.hardCap = NoTimer]),
                            !.done = TRUE]
    /\ PureFrame

NextWait == Mutation \/ Tick \/ QuietTimeout \/ HardCapTimeout
SpecWait == InitWait /\ [][NextWait]_vars /\ WF_vars(NextWait)

\* C40: for every stream of mutations the stability wait resolves exactly
\* once: at the first moment at which 500 ms have passed without a mutation,
\* and at 3 s after its start at the latest; from then on the observer is
\* disconnected and both timers are cleared, so that later mutations and
\* timer firings change nothing.
C40_ResolvesOnce ==
    /\ [](Waiting =>
          LET w == call.out IN
          /\ w.resolves <= 1 /\ (w.resolved <=> w.resolves = 1)
          /\ ~w.resolved => w.now <= MaxWaitMs /\ w.now <= w.last + PopcornWaitMs
          /\ w.resolved
                => /\ w.at = Min2(w.last + PopcornWaitMs, MaxWaitMs)
                   /\ ~w.observing /\ w.timer = NoTimer /\ w.hardCap = NoTimer)
    /\ <>(Waiting /\ call.out.resolves = 1)
    /\ [][(Waiting /\ call.out.resolved)
          => call.out' = [call.out EXCEPT !.now = call.out'.now,
                                          !.dom = call.out'.dom]]_vars
\* the hard cap ends a wait the page never let go quiet, and the page goes
\* on mutating afterwards
C40_Witness ==
    /\ Waiting /\ call.out.resolves = 1
    /\ call.out.at = MaxWaitMs /\ call.out.last + PopcornWaitMs > MaxWaitMs
    /\ call.out.dom > call.out.at

====
